---- MODULE Spec2Model ----
(***************************************************************************)
(* A model of the JSG isolate embedding layer (src/workerd/jsg/setup.h)    *)
(* and of the V8 promise context tagging patch (src/unnamed/part_002).     *)
(*                                                                         *)
(* Three specifications share the variables:                               *)
(*   Spec         the isolate lock, the deferred destruction queue and the *)
(*                external memory accounting, with several threads;        *)
(*   SpecWrap     contexts, type wrappers, wrap / unwrap under the lock;   *)
(*   SpecPromise  promise context tags, PromiseContextScope and the        *)
(*                cross-context callback of PerformPromiseThenImpl.        *)
(***************************************************************************)
EXTENDS Integers, Sequences, FiniteSets, TLC

\* ------------------------------------------------------------------ bounds
NumThreads == 2
NumObjects == 1
MaxItems == 2
MaxAdjust == 2
MaxDelta == 1
NumTypes == 2
MaxContexts == 2
NumTags == 2
MaxGuestSteps == 2
MaxIsolates == 1
NumNativeContexts == 2
MaxPromises == 1
MaxReactions == 1
MaxScopes == 2
MaxBursts == 3
MaxNested == 1

Threads == 1 .. NumThreads
Objects == 1 .. NumObjects
ItemIds == 1 .. MaxItems
Deltas == (-MaxDelta .. MaxDelta) \ {0}
Types == 1 .. NumTypes
Tags == 1 .. NumTags
NativeContexts == 1 .. NumNativeContexts

\* setup.h:328, setup.h:331
DESTRUCTION_QUEUE_INITIAL_SIZE == 8
DESTRUCTION_QUEUE_MAX_CAPACITY == 10000

VARIABLES
  debug,                        \* the build keeps DCHECK / KJ_DASSERT
  alive,                        \* the IsolateBase has not been destroyed
  lockHolder,                   \* thread holding the isolate lock, 0 = none
  pc,                           \* each thread's position
  hand,                         \* each thread's local: item or amount in flight
  queueMutex,                   \* holder of the MutexGuarded queue, 0 = none
  pushBatch, popBatch,          \* BatchQueue<Item>: the double buffer
  nextItem,                     \* items created so far
  nativeRefs,                   \* per object: jsg::Ref still held, by kind
  strongRefcount,               \* Wrappable::strongRefcount
  ownCount,                     \* owners of the wrappable (kj::Own)
  released,                     \* history: per item, times its payload was released
  removeCalls,                  \* history: per item, removeStrongRef() calls
  drainLog,                     \* history: the drain in progress / last drain
  externalMemory,               \* the isolate's externally allocated memory
  targetIsolate,                \* ExternalMemoryTarget's weak link is set
  pendingExternalMemoryUpdate,  \* ExternalMemoryTarget's deferred sum
  nAdjust,                      \* adjustments requested so far
  memLog,                       \* history: accounting of the adjustments
  uaf,                          \* history: instance state touched after destruction
  wrappers,                     \* Isolate::wrappers: type wrapper ids, 0 = empty slot
  hasExtraWrappers,             \* Isolate::hasExtraWrappers
  contexts,                     \* per context: embedder data slot 3 (0 = nullptr)
  currentContext,               \* the context entered by the lock holder, 0 = none
  handle,                       \* per object: its JavaScript wrapper object
  lastUnwrap,                   \* history: the last unwrap / getInstance
  promise_context_tag_,         \* i::Isolate: the ambient tag, or the hole
  promise_cross_context_callback_,    \* i::Isolate: 0 = nullptr, 1 = registered
  in_promise_cross_context_callback_, \* i::Isolate: the callback is running
  scopes,                       \* live PromiseContextScope objects, outermost first
  promises,                     \* the JSPromise objects
  microtasks,                   \* the microtask queue: reaction jobs
  nReactions,                   \* PromiseReaction objects made so far
  outer,                        \* the chaining attempt waiting for its callback
  lastChain,                    \* history: the chaining attempt that has just finished
  aborted,                      \* a CHECK / DCHECK failed: the process is gone
  terminating,                  \* terminateExecution() was called and not yet acted on
  guest,                        \* the guest code entered under the lock
  v8Systems,                    \* live V8System objects in the process
  otherIsolates,                \* live isolates besides the one modelled in detail
  evalAllowed,                  \* IsolateBase::evalAllowed
  jspiEnabled,                  \* IsolateBase::jspiEnabled
  captureThrowsAsRejections,    \* IsolateBase::captureThrowsAsRejections
  nodeJsCompatEnabled,          \* IsolateBase::nodeJsCompatEnabled
  maybeLogger,                  \* IsolateBase::maybeLogger: 0 = kj::none, 1 = set
  pushSize, popSize,            \* BatchQueue by sizes: elements in each buffer
  pushCapacity, popCapacity,    \* BatchQueue by sizes: storage of each buffer
  batchLive,                    \* a popped Batch has not been destroyed yet
  nBursts,                      \* bursts of enqueues so far
  lastDrain,                    \* history: the last completed drain, by sizes
  lockScope                     \* per thread: where its runInLockScope call is

varsQueue == <<alive, lockHolder, pc, hand, queueMutex, pushBatch, popBatch, nextItem,
               nativeRefs, strongRefcount, ownCount, released, removeCalls, drainLog>>
varsMem == <<externalMemory, targetIsolate, pendingExternalMemoryUpdate, nAdjust, memLog, uaf>>
varsQueueData == <<queueMutex, pushBatch, popBatch, nextItem, nativeRefs, strongRefcount,
                   ownCount, released, removeCalls, drainLog>>
varsWrap == <<wrappers, hasExtraWrappers, contexts, currentContext, handle, lastUnwrap>>
varsPromise == <<promise_context_tag_, promise_cross_context_callback_,
                 in_promise_cross_context_callback_, scopes, promises,
                 microtasks, nReactions, outer, lastChain, aborted>>
varsLife == <<terminating, guest, v8Systems, otherIsolates>>
varsFlags == <<evalAllowed, jspiEnabled, captureThrowsAsRejections, nodeJsCompatEnabled,
               maybeLogger>>
varsCapacity == <<pushSize, popSize, pushCapacity, popCapacity, batchLive, nBursts,
                  lastDrain>>
varsScope == <<lockScope>>
rest == <<debug, varsWrap, varsPromise, varsLife, varsFlags, varsCapacity, varsScope>>
vars == <<rest, varsQueue, varsMem>>

\* ------------------------------------------------------------------ items
\* Item = kj::OneOf<v8::Global<v8::Data>, RefToDelete>.  `own` is the object
\* whose kj::Own the record holds (0: null, moved-from); for a Global it is 1
\* while the handle is set.
NoItem == [id |-> 0, kind |-> "none", strong |-> FALSE, own |-> 0, wrappable |-> 0]
RefToDelete(id, strong, o) ==
  [id |-> id, kind |-> "ref", strong |-> strong, own |-> o, wrappable |-> o]
GlobalItem(id) ==
  [id |-> id, kind |-> "global", strong |-> FALSE, own |-> 1, wrappable |-> 0]

\* RefToDelete(RefToDelete&&) = default: the source keeps `strong` and the raw
\* pointer, its Own becomes null.
MovedFrom(item) == [item EXCEPT !.own = 0]

\* ~RefToDelete with the null check dropped.
RefToDelete_dtor_nocheck(r) == [remove |-> r.strong, release |-> r.own # 0]

\* ~RefToDelete: removeStrongRef() iff the record still owns and is strong;
\* then the member ownWrappable is released.
RefToDelete_dtor(r) == [remove |-> (r.own # 0 /\ r.strong), release |-> r.own # 0]

Item_dtor(item) ==
  IF item.kind = "ref" THEN RefToDelete_dtor(item)
  ELSE [remove |-> FALSE, release |-> item.own # 0]

\* The effect of destroying one item on the bookkeeping.  The destructor's
\* body (removeStrongRef) runs before its members (ownWrappable) are destroyed.
Bump(f, k, d) == [f EXCEPT ![k] = @ + d]
DestroyItem(item, st) ==
  LET e == Item_dtor(item) IN
  [strongRefcount |-> IF e.remove THEN Bump(st.strongRefcount, item.wrappable, -1)
                      ELSE st.strongRefcount,
   ownCount |-> IF e.release /\ item.kind = "ref" THEN Bump(st.ownCount, item.own, -1)
                ELSE st.ownCount,
   released |-> IF e.release THEN Bump(st.released, item.id, 1) ELSE st.released,
   removeCalls |-> IF e.remove THEN Bump(st.removeCalls, item.id, 1) ELSE st.removeCalls,
   order |-> IF e.release THEN Append(st.order, item.id) ELSE st.order,
   effects |-> st.effects
                 \o (IF e.remove THEN <<[id |-> item.id, what |-> "removeStrongRef"]>>
                     ELSE <<>>)
                 \o (IF e.release THEN <<[id |-> item.id, what |-> "release"]>> ELSE <<>>)]

RECURSIVE DestroyAll(_, _)
DestroyAll(items, st) ==
  IF items = <<>> THEN st
  ELSE DestroyAll(Tail(items), DestroyItem(Head(items), st))

Book == [strongRefcount |-> strongRefcount, ownCount |-> ownCount,
         released |-> released, removeCalls |-> removeCalls, order |-> <<>>,
         effects |-> <<>>]
SetBook(st) ==
  /\ strongRefcount' = st.strongRefcount
  /\ ownCount' = st.ownCount
  /\ released' = st.released
  /\ removeCalls' = st.removeCalls

Ids(items) == {items[i].id : i \in 1 .. Len(items)}

\* Items whose deferDestruction() has returned.
EnqueueCompleted ==
  (1 .. nextItem) \ {hand[t].item.id : t \in {u \in Threads : pc[u] = "pushLocked"}}

NoHand == [item |-> NoItem, amount |-> 0, ret |-> "idle"]

\* ------------------------------------------------------------------ Init
NoDrain == [snap |-> {}, state |-> "none", order |-> <<>>, effects |-> <<>>]
NoMemLog == [held |-> FALSE, delta |-> 0, before |-> 0, after |-> 0,
             deferredTotal |-> 0, appliedTotal |-> 0, nDeferred |-> 0, nApplied |-> 0,
             snap |-> 0, applyBefore |-> 0, applyPending |-> 0, applyAfter |-> 0,
             memAtDeath |-> 0, postMortem |-> FALSE]

NoGuest == [state |-> "none", steps |-> 0]
NoSizes == [n |-> 0, backlog |-> 0, before |-> DESTRUCTION_QUEUE_INITIAL_SIZE,
            after |-> DESTRUCTION_QUEUE_INITIAL_SIZE]

InitIsolate ==
  /\ alive = TRUE
  /\ terminating = FALSE
  /\ guest = NoGuest
  /\ v8Systems = 1
  /\ otherIsolates = 0
  /\ evalAllowed = FALSE
  /\ jspiEnabled = FALSE
  /\ captureThrowsAsRejections = FALSE
  /\ nodeJsCompatEnabled = FALSE
  /\ maybeLogger = 0
  /\ pushSize = 0
  /\ popSize = 0
  /\ pushCapacity = DESTRUCTION_QUEUE_INITIAL_SIZE
  /\ popCapacity = DESTRUCTION_QUEUE_INITIAL_SIZE
  /\ batchLive = FALSE
  /\ nBursts = 0
  /\ lastDrain = NoSizes
  /\ lockScope = [t \in Threads |-> "none"]
  /\ lockHolder = 0
  /\ pc = [t \in Threads |-> "idle"]
  /\ hand = [t \in Threads |-> NoHand]
  /\ queueMutex = 0
  /\ pushBatch = <<>>
  /\ popBatch = <<>>
  /\ nextItem = 0
  /\ nativeRefs = [o \in Objects |-> [strong |-> 0, weak |-> 0]]
  /\ strongRefcount = [o \in Objects |-> 0]
  /\ ownCount = [o \in Objects |-> 0]
  /\ released = [i \in ItemIds |-> 0]
  /\ removeCalls = [i \in ItemIds |-> 0]
  /\ drainLog = NoDrain
  /\ externalMemory = 0
  /\ targetIsolate = TRUE
  /\ pendingExternalMemoryUpdate = 0
  /\ nAdjust = 0
  /\ memLog = NoMemLog
  /\ uaf = FALSE

\* Wrappable's internal fields: the tag marker and the native pointer.
WRAPPABLE_TAG_FIELD_INDEX == 0
WRAPPED_OBJECT_FIELD_INDEX == 1
WORKERD_WRAPPABLE_TAG == -1

NoHandle == [madeBy |-> 0, type |-> 0, ctx |-> 0,
             fields |-> [i \in {WRAPPABLE_TAG_FIELD_INDEX, WRAPPED_OBJECT_FIELD_INDEX} |-> 0]]
NoUnwrap == [op |-> "none", o |-> 0, ctx |-> 0, via |-> 0, expected |-> 0, result |-> 0,
             thrown |-> "none"]

\* Isolate::Isolate: wrappers.resize(1), then instantiateDefaultWrapper() when
\* instantiateTypeWrapper is set.
InitWrap(instantiateTypeWrapper) ==
  /\ wrappers = IF instantiateTypeWrapper THEN <<1>> ELSE <<0>>
  /\ hasExtraWrappers = FALSE
  /\ contexts = <<>>
  /\ currentContext = 0
  /\ handle = [o \in Objects |-> NoHandle]
  /\ lastUnwrap = NoUnwrap

\* The sentinels: Smi::zero() in a promise, the hole in the isolate.
SmiZero == 0
TheHole == -1

NoChain == [p |-> 0, ambient |-> TheHole, pending |-> FALSE, cbSet |-> FALSE,
            inCb |-> FALSE, context |-> 0, args |-> <<>>, delegate |-> 0,
            reaction |-> 0, made |-> 0]

\* Isolate::Init: clear_promise_context_tag(); the callback is unset and the
\* in-progress flag false.
InitPromise ==
  /\ promise_context_tag_ = TheHole
  /\ promise_cross_context_callback_ = 0
  /\ in_promise_cross_context_callback_ = FALSE
  /\ scopes = <<>>
  /\ promises = <<>>
  /\ microtasks = <<>>
  /\ nReactions = 0
  /\ outer = NoChain
  /\ lastChain = NoChain
  /\ aborted = "no"

Init ==
  /\ debug = FALSE
  /\ InitIsolate
  /\ InitWrap(TRUE)
  /\ InitPromise

SetPc(t, p) == pc' = [pc EXCEPT ![t] = p]

\* ------------------------------------------------------------------ the lock
\* Lock::Lock with the call of applyDeferredActions() left out.
Lock_ctor_nodrain(t) ==
  /\ alive
  /\ pc[t] = "idle"
  /\ lockHolder = 0
  /\ lockHolder' = t
  /\ SetPc(t, "locked")
  /\ drainLog' = [NoDrain EXCEPT !.snap = EnqueueCompleted, !.state = "skipped"]
  /\ memLog' = [memLog EXCEPT !.snap = memLog.nDeferred]
  /\ UNCHANGED <<rest, alive, hand, queueMutex, pushBatch, popBatch, nextItem, nativeRefs,
                 strongRefcount, ownCount, released, removeCalls, externalMemory,
                 targetIsolate, pendingExternalMemoryUpdate, nAdjust, uaf>>

\* A v8::Locker that does not wait for the holder to leave.
Locker_ctor_nowait(t) == TRUE

\* v8::Locker in jsg::Lock: the constructor returns once no other thread holds
\* the isolate.
Locker_ctor(t) == lockHolder = 0

\* Isolate<TypeWrapper>::Lock::Lock: jsg::Lock(isolate.ptr) takes the isolate
\* lock, then the body calls jsgIsolate.applyDeferredActions().
Lock_ctor(t) ==
  /\ alive
  /\ pc[t] = "idle"
  /\ Locker_ctor(t)
  /\ lockHolder' = t
  /\ SetPc(t, "applyDeferredActions")
  /\ drainLog' = [NoDrain EXCEPT !.snap = EnqueueCompleted, !.state = "running"]
  /\ memLog' = [memLog EXCEPT !.snap = memLog.nDeferred]
  /\ UNCHANGED <<rest, alive, hand, queueMutex, pushBatch, popBatch, nextItem, nativeRefs,
                 strongRefcount, ownCount, released, removeCalls, externalMemory,
                 targetIsolate, pendingExternalMemoryUpdate, nAdjust, uaf>>

\* applyDeferredActions(), first half: queue.lockExclusive().
applyDeferredActions_lockExclusive(t) ==
  /\ pc[t] = "applyDeferredActions"
  /\ queueMutex = 0
  /\ queueMutex' = t
  /\ SetPc(t, "popLocked")
  /\ UNCHANGED <<rest, alive, lockHolder, hand, pushBatch, popBatch, nextItem, nativeRefs,
                 strongRefcount, ownCount, released, removeCalls, drainLog, varsMem>>

\* A pop that takes only what was enqueued before the drain began and
\* discards what came in since.
BatchQueue_pop_snapshot(t) ==
  /\ pc[t] = "popLocked"
  /\ popBatch = <<>>
  /\ popBatch' = SelectSeq(pushBatch, LAMBDA item : item.id \in drainLog.snap)
  /\ pushBatch' = popBatch
  /\ queueMutex' = 0
  /\ SetPc(t, "batch")
  /\ UNCHANGED <<rest, alive, lockHolder, hand, nextItem, nativeRefs,
                 strongRefcount, ownCount, released, removeCalls, drainLog, varsMem>>

\* A pop whose caller keeps the mutex while it destroys the batch.
BatchQueue_pop_keepMutex(t) ==
  /\ pc[t] = "popLocked"
  /\ popBatch = <<>>
  /\ popBatch' = pushBatch
  /\ pushBatch' = popBatch
  /\ SetPc(t, "batch")
  /\ UNCHANGED <<rest, alive, lockHolder, hand, queueMutex, nextItem, nativeRefs,
                 strongRefcount, ownCount, released, removeCalls, drainLog, varsMem>>

\* BatchQueue::pop(): the buffers are swapped under the mutex, which is then
\* released; the popped batch is destroyed afterwards.
BatchQueue_pop(t) ==
  /\ pc[t] = "popLocked"
  /\ popBatch = <<>>
  /\ popBatch' = pushBatch
  /\ pushBatch' = popBatch
  /\ queueMutex' = 0
  /\ SetPc(t, "batch")
  /\ UNCHANGED <<rest, alive, lockHolder, hand, nextItem, nativeRefs,
                 strongRefcount, ownCount, released, removeCalls, drainLog, varsMem>>

\* ~Batch: popBatch.clear() destroys the items in order, outside the mutex.
Batch_dtor(t) ==
  /\ pc[t] = "batch"
  /\ SetBook(DestroyAll(popBatch, Book))
  /\ popBatch' = <<>>
  /\ drainLog' = [drainLog EXCEPT !.state = "done",
                                  !.order = DestroyAll(popBatch, Book).order,
                                  !.effects = DestroyAll(popBatch, Book).effects]
  /\ SetPc(t, "memory")
  /\ UNCHANGED <<rest, alive, lockHolder, hand, queueMutex, pushBatch, nextItem,
                 nativeRefs, varsMem>>

\* applyDeferredActions(), second half: the pending sum is exchanged with zero
\* and applied in one update.
applyDeferredMemoryUpdate(t) ==
  /\ pc[t] = "memory"
  /\ externalMemory' = externalMemory + pendingExternalMemoryUpdate
  /\ pendingExternalMemoryUpdate' = 0
  /\ memLog' = [memLog EXCEPT !.appliedTotal = @ + pendingExternalMemoryUpdate,
                              !.nApplied = memLog.nDeferred,
                              !.applyBefore = externalMemory,
                              !.applyPending = pendingExternalMemoryUpdate,
                              !.applyAfter = externalMemory']
  /\ SetPc(t, "locked")
  /\ UNCHANGED <<rest, alive, lockHolder, hand, queueMutex, pushBatch, popBatch, nextItem,
                 nativeRefs, strongRefcount, ownCount, released, removeCalls, drainLog,
                 targetIsolate, nAdjust, uaf>>

\* ~Lock: the isolate lock is released; its context scopes have ended.
Lock_dtor(t) ==
  /\ pc[t] = "locked"
  /\ lockHolder = t
  /\ lockHolder' = 0
  /\ SetPc(t, "idle")
  /\ currentContext' = 0
  /\ UNCHANGED <<debug, varsPromise, varsLife, varsFlags, varsCapacity, varsScope, wrappers, hasExtraWrappers, contexts, handle, lastUnwrap, alive, hand, queueMutex, pushBatch, popBatch, nextItem, nativeRefs,
                 strongRefcount, ownCount, released, removeCalls, drainLog, varsMem>>

\* ------------------------------------------------------------------ references
\* js.alloc<T>(): a new wrappable with one strong jsg::Ref, under the lock.
alloc(t, o) ==
  /\ pc[t] = "locked"
  /\ ownCount[o] = 0
  /\ nativeRefs[o] = [strong |-> 0, weak |-> 0]
  /\ nativeRefs' = [nativeRefs EXCEPT ![o].strong = 1]
  /\ strongRefcount' = [strongRefcount EXCEPT ![o] = 1]
  /\ ownCount' = [ownCount EXCEPT ![o] = 1]
  /\ UNCHANGED <<rest, alive, lockHolder, pc, hand, queueMutex, pushBatch, popBatch, nextItem,
                 released, removeCalls, drainLog, varsMem>>

\* Ref<T>::addRef(): another reference to a live wrappable; a reference reached
\* by GC tracing is weak and is not counted in strongRefcount.
addRef(t, o, strong) ==
  /\ pc[t] = "locked"
  /\ ownCount[o] > 0
  /\ ownCount[o] < MaxItems
  /\ nativeRefs' = [nativeRefs EXCEPT ![o] =
                      IF strong THEN [@ EXCEPT !.strong = @ + 1]
                      ELSE [@ EXCEPT !.weak = @ + 1]]
  /\ strongRefcount' = IF strong THEN Bump(strongRefcount, o, 1) ELSE strongRefcount
  /\ ownCount' = Bump(ownCount, o, 1)
  /\ UNCHANGED <<rest, alive, lockHolder, pc, hand, queueMutex, pushBatch, popBatch, nextItem,
                 released, removeCalls, drainLog, varsMem>>

HasRef(o, strong) == IF strong THEN nativeRefs[o].strong > 0 ELSE nativeRefs[o].weak > 0
TakeRef(o, strong) ==
  nativeRefs' = [nativeRefs EXCEPT ![o] =
                   IF strong THEN [@ EXCEPT !.strong = @ - 1]
                   ELSE [@ EXCEPT !.weak = @ - 1]]

\* A jsg::Ref dropped by the thread that holds the lock: released on the spot.
dropRefLocked(t, o, strong) ==
  /\ pc[t] = "locked"
  /\ HasRef(o, strong)
  /\ TakeRef(o, strong)
  /\ strongRefcount' = IF strong THEN Bump(strongRefcount, o, -1) ELSE strongRefcount
  /\ ownCount' = Bump(ownCount, o, -1)
  /\ UNCHANGED <<rest, alive, lockHolder, pc, hand, queueMutex, pushBatch, popBatch, nextItem,
                 released, removeCalls, drainLog, varsMem>>

\* deferDestruction(item), first half: queue.lockExclusive().  The caller is a
\* thread without the lock dropping a jsg::Ref (a RefToDelete) or a v8::Global.
deferDestruction_lockExclusive(t, item) ==
  /\ alive
  /\ pc[t] = "idle"
  /\ nextItem < MaxItems
  /\ item.id = nextItem + 1
  /\ queueMutex = 0
  /\ queueMutex' = t
  /\ nextItem' = nextItem + 1
  /\ hand' = [hand EXCEPT ![t] = [NoHand EXCEPT !.item = item]]
  /\ SetPc(t, "pushLocked")
  /\ UNCHANGED <<rest, alive, lockHolder, pushBatch, popBatch,
                 strongRefcount, ownCount, released, removeCalls, drainLog, varsMem>>

dropRefUnlocked(t, o, strong) ==
  /\ HasRef(o, strong)
  /\ TakeRef(o, strong)
  /\ deferDestruction_lockExclusive(t, RefToDelete(nextItem + 1, strong, o))

dropGlobalUnlocked(t) ==
  /\ deferDestruction_lockExclusive(t, GlobalItem(nextItem + 1))
  /\ UNCHANGED nativeRefs

\* A push whose caller goes on with the queue mutex still locked.
deferDestruction_push_keepMutex(t) ==
  /\ pc[t] = "pushLocked"
  /\ pushBatch' = Append(pushBatch, hand[t].item)
  /\ SetBook(DestroyItem(MovedFrom(hand[t].item), Book))
  /\ hand' = [hand EXCEPT ![t] = NoHand]
  /\ SetPc(t, "idle")
  /\ UNCHANGED <<rest, alive, lockHolder, queueMutex, popBatch, nextItem, nativeRefs,
                 drainLog, varsMem>>

\* A push that puts the item at the front of the buffer.
deferDestruction_push_front(t) ==
  /\ pc[t] = "pushLocked"
  /\ pushBatch' = <<hand[t].item>> \o pushBatch
  /\ SetBook(DestroyItem(MovedFrom(hand[t].item), Book))
  /\ queueMutex' = 0
  /\ hand' = [hand EXCEPT ![t] = NoHand]
  /\ SetPc(t, "idle")
  /\ UNCHANGED <<rest, alive, lockHolder, popBatch, nextItem, nativeRefs, drainLog, varsMem>>

\* deferDestruction(item), second half: push(kj::mv(item)) moves the item into
\* pushBatch, the mutex is released and the moved-from parameter is destroyed.
deferDestruction_push(t) ==
  /\ pc[t] = "pushLocked"
  /\ pushBatch' = Append(pushBatch, hand[t].item)
  /\ SetBook(DestroyItem(MovedFrom(hand[t].item), Book))
  /\ queueMutex' = 0
  /\ hand' = [hand EXCEPT ![t] = NoHand]
  /\ SetPc(t, "idle")
  /\ UNCHANGED <<rest, alive, lockHolder, popBatch, nextItem, nativeRefs, drainLog, varsMem>>

\* ------------------------------------------------------------------ external memory
HoldsLock(t) == lockHolder = t /\ pc[t] = "locked"

\* maybeDeferAdjustment applying at once whatever the caller holds.
maybeDeferAdjustment_now(t, amount) ==
  /\ IF alive THEN externalMemory' = externalMemory + amount /\ UNCHANGED uaf
     ELSE uaf' = TRUE /\ UNCHANGED externalMemory
  /\ UNCHANGED <<pendingExternalMemoryUpdate, pc, hand>>

\* ExternalMemoryTarget::maybeDeferAdjustment: nothing when the isolate is gone
\* (the atomic weak link is null); applied at once when the calling thread
\* holds the lock; otherwise the caller goes on to add it to the pending sum.
maybeDeferAdjustment(t, amount) ==
  IF ~targetIsolate
  THEN UNCHANGED <<externalMemory, pendingExternalMemoryUpdate, pc, hand, uaf>>
  ELSE IF HoldsLock(t)
  THEN /\ IF alive THEN externalMemory' = externalMemory + amount /\ UNCHANGED uaf
          ELSE uaf' = TRUE /\ UNCHANGED externalMemory
       /\ UNCHANGED <<pendingExternalMemoryUpdate, pc, hand>>
  ELSE /\ hand' = [hand EXCEPT ![t] = [NoHand EXCEPT !.amount = amount, !.ret = pc[t]]]
       /\ SetPc(t, "defer")
       /\ UNCHANGED <<externalMemory, pendingExternalMemoryUpdate, uaf>>

\* ExternalMemoryTarget::getAdjustment(amount): the new adjustment reports its
\* amount to the target.
getAdjustment(t, amount) == maybeDeferAdjustment(t, amount)

\* getExternalMemoryAdjustment always deferring to the pending sum.
getExternalMemoryAdjustment_deferred(t, amount) ==
  /\ hand' = [hand EXCEPT ![t] = [NoHand EXCEPT !.amount = amount, !.ret = pc[t]]]
  /\ SetPc(t, "defer")
  /\ UNCHANGED <<externalMemory, pendingExternalMemoryUpdate, uaf>>

\* IsolateBase::getExternalMemoryAdjustment(amount)
\*   { return externalMemoryTarget->getAdjustment(amount); }
getExternalMemoryAdjustment(t, amount) == getAdjustment(t, amount)

AdjustLog(t, amount) ==
  memLog' = [memLog EXCEPT !.held = HoldsLock(t), !.delta = amount,
                           !.before = externalMemory, !.after = externalMemory',
                           !.postMortem = ~alive]

\* An adjustment made through the isolate (which must be alive to be called).
adjustViaIsolate(t, amount) ==
  /\ alive
  /\ pc[t] \in {"idle", "locked"}
  /\ nAdjust < MaxAdjust
  /\ nAdjust' = nAdjust + 1
  /\ getExternalMemoryAdjustment(t, amount)
  /\ AdjustLog(t, amount)
  /\ UNCHANGED <<rest, varsQueueData, alive, lockHolder, targetIsolate>>

\* An adjustment made or released through a Target reference, which may
\* outlive the isolate.
adjustViaTarget(t, amount) ==
  /\ pc[t] \in {"idle", "locked"}
  /\ nAdjust < MaxAdjust
  /\ nAdjust' = nAdjust + 1
  /\ getAdjustment(t, amount)
  /\ AdjustLog(t, amount)
  /\ UNCHANGED <<rest, varsQueueData, alive, lockHolder, targetIsolate>>

\* The deferred branch: pendingExternalMemoryUpdate.fetch_add(amount), a field
\* of the Target itself.
deferAdjustment(t) ==
  /\ pc[t] = "defer"
  /\ pendingExternalMemoryUpdate' = pendingExternalMemoryUpdate + hand[t].amount
  /\ memLog' = [memLog EXCEPT !.deferredTotal = @ + hand[t].amount, !.nDeferred = @ + 1]
  /\ SetPc(t, hand[t].ret)
  /\ hand' = [hand EXCEPT ![t] = NoHand]
  /\ UNCHANGED <<rest, varsQueueData, alive, lockHolder, externalMemory, targetIsolate,
                 nAdjust, uaf>>

\* ------------------------------------------------------------------ destruction
\* A teardown that throws the queue away with its items unreleased.
IsolateBase_dtor_queue_leak(items, st) == st

\* ~IsolateBase: what is still in the destruction queue is destroyed.
IsolateBase_dtor_queue(items, st) == DestroyAll(items, st)

\* ~Isolate / ~IsolateBase: with no lock outstanding and no enqueue in flight,
\* the queue is drained, the Target's weak link is cleared and the isolate's
\* state is torn down.
Isolate_dtor(t) ==
  /\ alive
  /\ pc[t] = "idle"
  /\ lockHolder = 0
  /\ queueMutex = 0
  /\ \A u \in Threads : pc[u] \in {"idle", "defer"}
  /\ SetBook(IsolateBase_dtor_queue(pushBatch, Book))
  /\ pushBatch' = <<>>
  /\ targetIsolate' = FALSE
  /\ alive' = FALSE
  /\ memLog' = [memLog EXCEPT !.memAtDeath = externalMemory]
  /\ UNCHANGED <<rest, lockHolder, pc, hand, queueMutex, popBatch, nextItem, nativeRefs,
                 drainLog, externalMemory, pendingExternalMemoryUpdate, nAdjust, uaf>>

\* ------------------------------------------------------------------ Spec
\* Taking and releasing the lock, with the deferred actions of its constructor.
LockStep(t) ==
  \/ Lock_ctor(t)
  \/ applyDeferredActions_lockExclusive(t)
  \/ BatchQueue_pop(t)
  \/ Batch_dtor(t)
  \/ applyDeferredMemoryUpdate(t)
  \/ Lock_dtor(t)

\* The lock and the deferred destruction queue.
Next ==
  \E t \in Threads :
    \/ LockStep(t)
    \/ \E o \in Objects : alloc(t, o)
    \/ \E o \in Objects, strong \in BOOLEAN : addRef(t, o, strong)
    \/ \E o \in Objects, strong \in BOOLEAN : dropRefLocked(t, o, strong)
    \/ \E o \in Objects, strong \in BOOLEAN : dropRefUnlocked(t, o, strong)
    \/ dropGlobalUnlocked(t)
    \/ deferDestruction_push(t)
    \/ Isolate_dtor(t)

Spec == Init /\ [][Next]_vars

\* The lock and the external memory accounting.
NextMem ==
  \E t \in Threads :
    \/ LockStep(t)
    \/ \E d \in Deltas : adjustViaIsolate(t, d)
    \/ \E d \in Deltas : adjustViaTarget(t, d)
    \/ deferAdjustment(t)
    \/ Isolate_dtor(t)

SpecMem == Init /\ [][NextMem]_vars

\* ------------------------------------------------------------------ type wrappers
TypeOf(o) == ((o - 1) % NumTypes) + 1

\* getWrapperByContext(v8::Local<v8::Context>)
getWrapperByContext(c) ==
  IF ~hasExtraWrappers THEN wrappers[1]
  ELSE LET ptr == contexts[c] IN
       IF ptr # 0 THEN ptr ELSE wrappers[1]

\* getWrapperByContext(jsg::Lock&): the lock's current context.
getWrapperByContextJs ==
  IF ~hasExtraWrappers THEN wrappers[1]
  ELSE getWrapperByContext(currentContext)

\* The FunctionTemplate a type wrapper holds for a type.
Tmpl(w, type) == <<w, type>>

\* v8::Object::FindInstanceInPrototypeChain: the object if the template made it.
FindInstanceInPrototypeChain(h, tmpl) == Tmpl(h.madeBy, h.type) = tmpl

\* getInstance reading the tag field instead of the pointer field.
getInstance_tagField(h, type) ==
  IF ~FindInstanceInPrototypeChain(h, Tmpl(getWrapperByContextJs, type)) THEN 0
  ELSE h.fields[WRAPPABLE_TAG_FIELD_INDEX]

\* Lock::getInstance(obj, type): 0 is kj::none.
getInstance(h, type) ==
  IF ~FindInstanceInPrototypeChain(h, Tmpl(getWrapperByContextJs, type)) THEN 0
  ELSE h.fields[WRAPPED_OBJECT_FIELD_INDEX]

\* TypeWrapper::unwrap<T> casting the pointer field without looking for the
\* instance.
TypeWrapper_unwrap_unchecked(w, h, type) == h.fields[WRAPPED_OBJECT_FIELD_INDEX]

\* TypeWrapper::unwrap<T> of a resource type through a given type wrapper:
\* 0 is the TypeError thrown on a mismatch.
TypeWrapper_unwrap(w, h, type) ==
  IF ~FindInstanceInPrototypeChain(h, Tmpl(w, type)) THEN 0
  ELSE h.fields[WRAPPED_OBJECT_FIELD_INDEX]

\* What Lock::unwrap raises to the guest: a JS TypeError when the type does
\* not match, nothing otherwise.
Thrown(result) == IF result = 0 THEN "TypeError" ELSE "none"

UnchangedIsolate ==
  UNCHANGED <<debug, varsQueue, varsMem, varsPromise, varsLife, varsFlags, varsCapacity, varsScope>>

\* instantiateDefaultWrapper on an isolate built without one.
instantiateDefaultWrapper(t) ==
  /\ alive
  /\ pc[t] = "idle"
  /\ wrappers[1] = 0
  /\ wrappers' = [wrappers EXCEPT ![1] = 1]
  /\ UNCHANGED <<hasExtraWrappers, contexts, currentContext, handle, lastUnwrap>>
  /\ UnchangedIsolate

\* newContextWithWrapper: the new context records its wrapper in embedder
\* data slot 3.
newContextWithWrapper(w) ==
  /\ Len(contexts) < MaxContexts
  /\ contexts' = Append(contexts, w)

\* Lock::newContext<T>: a context of the default wrapper.
newContext(t) ==
  /\ HoldsLock(t)
  /\ wrappers # <<>>
  /\ wrappers[1] # 0
  /\ newContextWithWrapper(wrappers[1])
  /\ UNCHANGED <<wrappers, hasExtraWrappers, currentContext, handle, lastUnwrap>>
  /\ UnchangedIsolate

\* Lock::newContextWithWrapper<T> called with one of the isolate's wrappers.
callNewContextWithWrapper(t, w) ==
  /\ HoldsLock(t)
  /\ w # 0
  /\ \E i \in DOMAIN wrappers : wrappers[i] = w
  /\ newContextWithWrapper(w)
  /\ UNCHANGED <<wrappers, hasExtraWrappers, currentContext, handle, lastUnwrap>>
  /\ UnchangedIsolate

\* newContextWithConfiguration that leaves hasExtraWrappers as it was.
newContextWithConfiguration_noFlag(t) ==
  /\ HoldsLock(t)
  /\ wrappers' = Append(wrappers, Len(wrappers) + 1)
  /\ newContextWithWrapper(Len(wrappers) + 1)
  /\ UNCHANGED <<hasExtraWrappers, currentContext, handle, lastUnwrap>>
  /\ UnchangedIsolate

\* Lock::newContextWithConfiguration<T>: a context of a new, extra wrapper.
newContextWithConfiguration(t) ==
  /\ HoldsLock(t)
  /\ hasExtraWrappers' = TRUE
  /\ wrappers' = Append(wrappers, Len(wrappers) + 1)
  /\ newContextWithWrapper(Len(wrappers) + 1)
  /\ UNCHANGED <<currentContext, handle, lastUnwrap>>
  /\ UnchangedIsolate

\* A context made outside newContext (a dummy context): slot 3 is null.
newDummyContext(t) ==
  /\ HoldsLock(t)
  /\ newContextWithWrapper(0)
  /\ UNCHANGED <<wrappers, hasExtraWrappers, currentContext, handle, lastUnwrap>>
  /\ UnchangedIsolate

\* v8::Context::Scope: the lock holder enters a context.
enterContext(t, c) ==
  /\ HoldsLock(t)
  /\ c \in 1 .. Len(contexts)
  /\ currentContext # c
  /\ currentContext' = c
  /\ UNCHANGED <<wrappers, hasExtraWrappers, contexts, handle, lastUnwrap>>
  /\ UnchangedIsolate

\* Lock::wrap(context, value) of a native object held by a strong jsg::Ref:
\* the wrapper of the context makes the JavaScript object (once) and stores
\* the tag and the native pointer in its internal fields.
wrap(t, c, o) ==
  /\ HoldsLock(t)
  /\ c \in 1 .. Len(contexts)
  /\ wrappers[1] # 0
  /\ handle[o] = NoHandle
  /\ handle' = [handle EXCEPT ![o] =
                  [madeBy |-> getWrapperByContext(c), type |-> TypeOf(o), ctx |-> c,
                   fields |-> [i \in {WRAPPABLE_TAG_FIELD_INDEX, WRAPPED_OBJECT_FIELD_INDEX} |->
                                 IF i = WRAPPED_OBJECT_FIELD_INDEX THEN o
                                 ELSE WORKERD_WRAPPABLE_TAG]]]
  /\ UNCHANGED <<wrappers, hasExtraWrappers, contexts, currentContext, lastUnwrap>>
  /\ UnchangedIsolate

\* Lock::unwrap<T>(context, handle)
unwrap(t, c, o, type) ==
  /\ HoldsLock(t)
  /\ c \in 1 .. Len(contexts)
  /\ wrappers[1] # 0
  /\ handle[o] # NoHandle
  /\ LET result == TypeWrapper_unwrap(getWrapperByContext(c), handle[o], type) IN
     lastUnwrap' = [op |-> "unwrap", o |-> o, ctx |-> c, via |-> getWrapperByContext(c),
                    expected |-> type, result |-> result, thrown |-> Thrown(result)]
  /\ UNCHANGED <<wrappers, hasExtraWrappers, contexts, currentContext, handle>>
  /\ UnchangedIsolate

\* jsg::Lock::getInstance(obj, type) in the current context.
callGetInstance(t, o, type) ==
  /\ HoldsLock(t)
  /\ hasExtraWrappers => currentContext # 0
  /\ wrappers[1] # 0
  /\ handle[o] # NoHandle
  /\ lastUnwrap' = [op |-> "getInstance", o |-> o, ctx |-> currentContext,
                    via |-> getWrapperByContextJs, expected |-> type,
                    result |-> getInstance(handle[o], type), thrown |-> "none"]
  /\ UNCHANGED <<wrappers, hasExtraWrappers, contexts, currentContext, handle>>
  /\ UnchangedIsolate

\* The lock, contexts and wrap / unwrap.
NextWrap ==
  \E t \in Threads :
    \/ LockStep(t)
    \/ instantiateDefaultWrapper(t)
    \/ newContext(t)
    \/ newContextWithConfiguration(t)
    \/ \E w \in 1 .. MaxContexts : callNewContextWithWrapper(t, w)
    \/ newDummyContext(t)
    \/ \E c \in 1 .. MaxContexts : enterContext(t, c)
    \/ \E c \in 1 .. MaxContexts, o \in Objects : wrap(t, c, o)
    \/ \E c \in 1 .. MaxContexts, o \in Objects, type \in Types : unwrap(t, c, o, type)
    \/ \E o \in Objects, type \in Types : callGetInstance(t, o, type)

InitW ==
  /\ debug = FALSE
  /\ InitIsolate
  /\ \E b \in BOOLEAN : InitWrap(b)
  /\ InitPromise

SpecWrap == InitW /\ [][NextWrap]_vars

\* ------------------------------------------------------------------ promise tags
UnchangedRest ==
  UNCHANGED <<debug, varsWrap, varsQueue, varsMem, varsLife, varsFlags, varsCapacity, varsScope>>

has_promise_context_tag == promise_context_tag_ # TheHole

Pending(p) == promises[p].status = "pending"

\* v8::Isolate::SetPromiseCrossContextCallback
SetPromiseCrossContextCallback(callback) ==
  /\ aborted = "no"
  /\ ~in_promise_cross_context_callback_
  /\ promise_cross_context_callback_ # callback
  /\ promise_cross_context_callback_' = callback
  /\ UNCHANGED <<promise_context_tag_, in_promise_cross_context_callback_,
                 scopes, promises, microtasks, nReactions, outer, aborted>>
  /\ lastChain' = NoChain
  /\ UnchangedRest

\* The constructor with its DCHECKs compiled out.
PromiseContextScope_ctor_release(tag) ==
  /\ promise_context_tag_' = tag
  /\ scopes' = Append(scopes, tag)
  /\ UNCHANGED aborted

\* Isolate::PromiseContextScope::PromiseContextScope
PromiseContextScope_ctor(tag) ==
  IF debug /\ has_promise_context_tag
    THEN /\ aborted' = "DCHECK(!isolate_->has_promise_context_tag())"
         /\ UNCHANGED <<promise_context_tag_, scopes>>
    ELSE /\ promise_context_tag_' = tag
         /\ scopes' = Append(scopes, tag)
         /\ UNCHANGED aborted

EnterPromiseContextScope(tag) ==
  /\ aborted = "no"
  /\ ~in_promise_cross_context_callback_
  /\ Len(scopes) < MaxScopes
  /\ PromiseContextScope_ctor(tag)
  /\ UNCHANGED <<promise_cross_context_callback_, in_promise_cross_context_callback_,
                 promises, microtasks, nReactions, outer>>
  /\ lastChain' = NoChain
  /\ UnchangedRest

\* A destructor that leaves the isolate's tag as it is.
PromiseContextScope_dtor_keep ==
  /\ aborted = "no"
  /\ ~in_promise_cross_context_callback_
  /\ scopes # <<>>
  /\ scopes' = SubSeq(scopes, 1, Len(scopes) - 1)
  /\ UNCHANGED <<promise_context_tag_, promise_cross_context_callback_,
                 in_promise_cross_context_callback_,
                 promises, microtasks, nReactions, outer, aborted>>
  /\ lastChain' = NoChain
  /\ UnchangedRest

\* Isolate::PromiseContextScope::~PromiseContextScope, innermost scope first
PromiseContextScope_dtor ==
  /\ aborted = "no"
  /\ ~in_promise_cross_context_callback_
  /\ scopes # <<>>
  /\ promise_context_tag_' = TheHole
  /\ scopes' = SubSeq(scopes, 1, Len(scopes) - 1)
  /\ UNCHANGED <<promise_cross_context_callback_, in_promise_cross_context_callback_,
                 promises, microtasks, nReactions, outer, aborted>>
  /\ lastChain' = NoChain
  /\ UnchangedRest

\* Runtime_PromiseContextInit: the tag a new promise gets.
Runtime_PromiseContextInit ==
  IF ~has_promise_context_tag THEN SmiZero ELSE promise_context_tag_

\* The ways a JSPromise comes to be: PromiseInit / InnerNewJSPromise followed
\* by PromiseContextInit ("init"), NewJSPromise(status, result) ("settled"),
\* Factory::NewJSPromiseWithoutHook ("factory"), and the inlined allocation of
\* JSCreateLowering::ReduceJSCreatePromise ("lowering"), which stores zero.
NewJSPromiseRecord(how, id) ==
  [context_tag |-> CASE how = "lowering" -> SmiZero
                     [] how = "factory"  -> IF has_promise_context_tag
                                              THEN promise_context_tag_ ELSE SmiZero
                     [] OTHER            -> Runtime_PromiseContextInit,
   status      |-> IF how = "settled" THEN "settled" ELSE "pending",
   reactions   |-> <<>>,
   result      |-> IF how = "settled" THEN id ELSE 0,
   has_handler |-> FALSE,
   under       |-> promise_context_tag_]

NewJSPromise_upTo(how, limit) ==
  /\ aborted = "no"
  /\ Len(promises) < limit
  /\ promises' = Append(promises, NewJSPromiseRecord(how, Len(promises) + 1))
  /\ UNCHANGED <<promise_context_tag_, promise_cross_context_callback_,
                 in_promise_cross_context_callback_, scopes, microtasks,
                 nReactions, outer, aborted>>
  /\ lastChain' = NoChain
  /\ UnchangedRest

Jobs(rs, v) == [i \in 1 .. Len(rs) |-> [reaction |-> rs[i], argument |-> v]]

NewJSPromise(how) == NewJSPromise_upTo(how, MaxPromises)

\* FulfillPromise / RejectPromise: the promise leaves kPending, the result
\* replaces the reaction list and the reactions are queued in the order they
\* were added.  The code modelled here tests the status against kPending only,
\* so fulfilled and rejected are one status, "settled".
SettlePromise(p) ==
  /\ aborted = "no"
  /\ p \in 1 .. Len(promises)
  /\ Pending(p)
  /\ promises' = [promises EXCEPT ![p].status = "settled", ![p].result = p,
                                  ![p].reactions = <<>>]
  /\ microtasks' = microtasks \o Jobs(promises[p].reactions, p)
  /\ UNCHANGED <<promise_context_tag_, promise_cross_context_callback_,
                 in_promise_cross_context_callback_, scopes,
                 nReactions, outer, aborted>>
  /\ lastChain' = NoChain
  /\ UnchangedRest

RunMicrotask ==
  /\ aborted = "no"
  /\ ~in_promise_cross_context_callback_
  /\ microtasks # <<>>
  /\ microtasks' = Tail(microtasks)
  /\ UNCHANGED <<promise_context_tag_, promise_cross_context_callback_,
                 in_promise_cross_context_callback_, scopes, promises,
                 nReactions, outer, aborted>>
  /\ lastChain' = NoChain
  /\ UnchangedRest

\* What one chaining attempt saw when PerformPromiseThenImpl was entered.
ChainEntry(p, r, native_context) ==
  [p |-> p, ambient |-> promise_context_tag_, pending |-> Pending(p),
   cbSet |-> promise_cross_context_callback_ # 0,
   inCb |-> in_promise_cross_context_callback_, context |-> native_context,
   args |-> <<>>, delegate |-> 0, reaction |-> r, made |-> 0]

\* Runtime_PromiseContextCheck without the test for the zero tag.
PromiseContextCheck_tagOnly(p) ==
  promises[p].context_tag = promise_context_tag_

\* Runtime_PromiseContextCheck without the comparison against the isolate's tag.
PromiseContextCheck_zeroOnly(p) ==
  promises[p].context_tag = SmiZero

\* Runtime_PromiseContextCheck: the promise itself is returned when its tag is
\* zero or is the isolate's current tag.
PromiseContextCheck_same(p) ==
  LET obj == promises[p].context_tag IN
  obj = SmiZero \/ obj = promise_context_tag_

\* RunPromiseCrossContextCallback without the test of the in-progress flag.
RunPromiseCrossContextCallback_noFlagTest ==
  promise_cross_context_callback_ = 0

\* RunPromiseCrossContextCallback without the test for a null callback.
RunPromiseCrossContextCallback_noNullTest ==
  in_promise_cross_context_callback_

\* Isolate::RunPromiseCrossContextCallback: the promise itself is returned
\* when no callback is set or the callback is already running.
RunPromiseCrossContextCallback_skip ==
  promise_cross_context_callback_ = 0 \/ in_promise_cross_context_callback_

\* delegate.reactions_or_result = reaction; delegate.SetHasHandler().  The new
\* reaction's next link is the old field value cast to a reaction list, so on
\* a settled delegate the result stored in the field is overwritten.
AttachReaction(ps, d, r) ==
  [ps EXCEPT ![d].reactions = IF ps[d].status = "pending" THEN Append(@, r) ELSE <<r>>,
             ![d].result = 0,
             ![d].has_handler = TRUE]

\* NewPromiseReaction and the store of the reaction placed ahead of the call
\* of runtime::PromiseContextCheck.
BeforeCallback_attached(ps, p, r) == AttachReaction(ps, p, r)

\* The promises as they are when the callback is called: the call of
\* runtime::PromiseContextCheck is the first statement of the pending branch,
\* NewPromiseReaction and the store of the reaction come after it.
BeforeCallback(ps, p, r) == ps

\* PerformPromiseThenImpl up to the point where the callback, if any, is
\* called; native_context is isolate->native_context() at that moment.
PerformPromiseThenImpl_upTo(p, native_context, limit) ==
  LET r == nReactions + 1
      e == ChainEntry(p, r, native_context) IN
  /\ aborted = "no"
  /\ p \in 1 .. Len(promises)
  /\ nReactions < limit
  /\ nReactions' = r
  /\ IF Pending(p)
       THEN IF PromiseContextCheck_same(p) \/ RunPromiseCrossContextCallback_skip
              THEN /\ promises' = AttachReaction(promises, p, r)
                   /\ lastChain' = [e EXCEPT !.delegate = p]
                   /\ UNCHANGED <<in_promise_cross_context_callback_, outer, microtasks>>
              ELSE \* PromiseCrossContextCallbackScope; callback(context, promise, tag)
                   /\ in_promise_cross_context_callback_' = TRUE
                   /\ outer' = [e EXCEPT !.args = <<native_context, p, promises[p].context_tag>>]
                   /\ lastChain' = NoChain
                   /\ promises' = BeforeCallback(promises, p, r)
                   /\ UNCHANGED microtasks
       ELSE /\ microtasks' = Append(microtasks, [reaction |-> r, argument |-> promises[p].result])
            /\ promises' = [promises EXCEPT ![p].has_handler = TRUE]
            /\ lastChain' = [e EXCEPT !.delegate = p]
            /\ UNCHANGED <<in_promise_cross_context_callback_, outer>>
  /\ UNCHANGED <<promise_context_tag_, promise_cross_context_callback_,
                 scopes, aborted>>
  /\ UnchangedRest

PerformPromiseThenImpl(p, native_context) ==
  PerformPromiseThenImpl_upTo(p, native_context, MaxReactions)

\* promise.then() called by the callback while it runs.
PerformPromiseThenImpl_nested(p, native_context) ==
  /\ in_promise_cross_context_callback_
  /\ PerformPromiseThenImpl_upTo(p, native_context, MaxReactions + MaxNested)

\* The callback makes the promise it is going to hand back, at most one per
\* call: v8::Promise::Resolver::New in the calling context, which goes through
\* NewJSPromise and so takes the isolate's current tag.
PromiseCrossContextCallback_newPromise ==
  /\ aborted = "no"
  /\ in_promise_cross_context_callback_
  /\ outer.made = 0
  /\ promises' = Append(promises, NewJSPromiseRecord("init", Len(promises) + 1))
  /\ outer' = [outer EXCEPT !.made = Len(promises) + 1]
  /\ lastChain' = NoChain
  /\ UNCHANGED <<promise_context_tag_, promise_cross_context_callback_,
                 in_promise_cross_context_callback_, scopes, microtasks, nReactions,
                 aborted>>
  /\ UnchangedRest

\* PerformPromiseThenImpl with the reaction stored in the promise, not the delegate.
AttachTarget_promise(promise, delegate) == promise

\* delegate.reactions_or_result = reaction: the reaction goes to the delegate.
AttachTarget(promise, delegate) == delegate

\* A flag that is cleared only after the statement that follows the call, which
\* an exception from the callback skips.
PromiseCrossContextCallbackScope_dtor_onValue(result) == result = 0

\* ~PromiseCrossContextCallbackScope: the flag's value once
\* RunPromiseCrossContextCallback has been left, by its last return or by the
\* return of API_ASSIGN_RETURN_ON_EXCEPTION_VALUE.
PromiseCrossContextCallbackScope_dtor(result) == FALSE

\* A return that treats an exception from the callback like a missing
\* callback: the promise chained on becomes the delegate.
PromiseCrossContextCallback_return_fallback(result) ==
  /\ aborted = "no"
  /\ in_promise_cross_context_callback_
  /\ result \in 0 .. Len(promises)
  /\ in_promise_cross_context_callback_' = FALSE
  /\ outer' = NoChain
  /\ LET d == IF result = 0 THEN outer.p ELSE result IN
       /\ lastChain' = [outer EXCEPT !.delegate = result]
       /\ promises' = AttachReaction(promises, d, outer.reaction)
  /\ UNCHANGED <<promise_context_tag_, promise_cross_context_callback_,
                 scopes, microtasks, nReactions, aborted>>
  /\ UnchangedRest

\* The callback returns: a promise (result # 0) becomes the delegate and the
\* rest of PerformPromiseThenImpl's pending branch runs; an exception
\* (result = 0) leaves the MaybeHandle empty and nothing is attached.
PromiseCrossContextCallback_return(result) ==
  /\ aborted = "no"
  /\ in_promise_cross_context_callback_
  /\ result \in 0 .. Len(promises)
  /\ in_promise_cross_context_callback_' = PromiseCrossContextCallbackScope_dtor(result)
  /\ outer' = NoChain
  /\ IF result = 0
       THEN /\ lastChain' = outer
            /\ UNCHANGED promises
       ELSE /\ lastChain' = [outer EXCEPT !.delegate = result]
            /\ promises' = AttachReaction(promises, AttachTarget(outer.p, result),
                                           outer.reaction)
  /\ UNCHANGED <<promise_context_tag_, promise_cross_context_callback_,
                 scopes, microtasks, nReactions, aborted>>
  /\ UnchangedRest

NextPromise ==
  \/ \E cb \in 0 .. 1 : SetPromiseCrossContextCallback(cb)
  \/ \E tag \in Tags : EnterPromiseContextScope(tag)
  \/ PromiseContextScope_dtor
  \/ \E how \in {"init", "settled", "factory", "lowering"} : NewJSPromise(how)
  \/ \E p \in DOMAIN promises : SettlePromise(p)
  \/ \E p \in DOMAIN promises, c \in NativeContexts : PerformPromiseThenImpl(p, c)
  \/ \E result \in {0} \cup DOMAIN promises : PromiseCrossContextCallback_return(result)
  \/ RunMicrotask

InitP ==
  /\ debug \in BOOLEAN
  /\ InitIsolate
  /\ InitWrap(TRUE)
  /\ InitPromise

SpecPromise == InitP /\ [][NextPromise]_vars

\* An embedder that keeps to the scope discipline (one PromiseContextScope at
\* a time) and whose callback makes the promise it hands back.
EnterPromiseContextScope_unnested(tag) ==
  /\ scopes = <<>>
  /\ EnterPromiseContextScope(tag)

NextProxy ==
  \/ SetPromiseCrossContextCallback(1)
  \/ \E tag \in Tags : EnterPromiseContextScope_unnested(tag)
  \/ PromiseContextScope_dtor
  \/ \E how \in {"init", "settled", "factory", "lowering"} : NewJSPromise(how)
  \/ \E p \in DOMAIN promises : SettlePromise(p)
  \/ \E p \in DOMAIN promises, c \in NativeContexts : PerformPromiseThenImpl(p, c)
  \/ PromiseCrossContextCallback_newPromise
  \/ \E result \in {0} \cup DOMAIN promises : PromiseCrossContextCallback_return(result)
  \/ RunMicrotask

SpecProxy == Init /\ [][NextProxy]_vars

\* ------------------------------------------------------------------ properties
LockTaken == lockHolder # 0 /\ pc[lockHolder] = "locked"
Queued == Ids(pushBatch) \cup Ids(popBatch)

\* C1: every item whose enqueue completed before a drain began has been
\* released once that drain is done, and no item is ever released, or has its
\* strong reference removed, more than once.
C1_NoLossNoDuplication ==
  /\ \A i \in ItemIds : released[i] <= 1 /\ removeCalls[i] <= 1
  /\ drainLog.state = "done" => \A i \in drainLog.snap : released[i] = 1

C1_Witness ==
  /\ drainLog.state = "done"
  /\ Cardinality(drainLog.snap) = 2
  /\ \E i \in drainLog.snap : removeCalls[i] = 1
  /\ \E i \in drainLog.snap : removeCalls[i] = 0 /\ released[i] = 1

\* C10: a reference dropped without the lock is enqueued whatever the state of
\* the isolate lock (only the queue mutex is taken), and once the next Lock
\* constructor has finished the item is out of the queue and has been
\* released exactly once; no later acquisition releases it again.
C10_ReleasedOnceByNextLock ==
  /\ \A t \in Threads :
       /\ (alive /\ pc[t] = "idle" /\ nextItem < MaxItems /\ queueMutex = 0)
            => ENABLED dropGlobalUnlocked(t)
       /\ pc[t] = "pushLocked" => (lockHolder # t /\ ENABLED deferDestruction_push(t))
  /\ LockTaken => \A i \in drainLog.snap : released[i] = 1 /\ i \notin Queued
  /\ \A i \in ItemIds : released[i] <= 1

C10_Witness ==
  /\ LockTaken
  /\ drainLog.snap = {1}
  /\ removeCalls[1] = 1
  /\ released[1] = 1
  /\ nextItem = 1
  /\ strongRefcount[1] = 0

\* C5: an adjustment made by the thread that holds the lock is in the
\* isolate's external memory total when the call returns.
C5_ImmediateUnderLock ==
  memLog.held => memLog.after = memLog.before + memLog.delta

C5_Witness ==
  /\ memLog.held
  /\ memLog.delta = 1
  /\ memLog.after = memLog.before + 1
  /\ externalMemory = memLog.after
  /\ pendingExternalMemoryUpdate = 0

\* C6: deferred deltas are neither lost nor applied twice while the isolate is
\* alive (what was deferred is what was applied plus what is pending); the
\* Lock constructor applies everything that was pending when it began, in one
\* update whose amount is the pending sum.
C6_DeferredSumApplied ==
  /\ alive => memLog.deferredTotal = memLog.appliedTotal + pendingExternalMemoryUpdate
  /\ LockTaken => memLog.nApplied >= memLog.snap
  /\ memLog.applyAfter = memLog.applyBefore + memLog.applyPending

C6_Witness ==
  /\ LockTaken
  /\ memLog.snap = 2
  /\ memLog.nApplied = 2
  /\ memLog.applyPending = 2
  /\ externalMemory = 2
  /\ pendingExternalMemoryUpdate = 0

\* C7: once the isolate is destroyed an adjustment made through the Target
\* changes nothing of the isolate: its memory total stays what it was and no
\* instance state is touched.
C7_TargetOutlivesIsolate ==
  /\ ~alive => (~uaf /\ ~targetIsolate /\ externalMemory = memLog.memAtDeath)
  /\ memLog.postMortem => (memLog.after = memLog.before /\ ~uaf)

C7_Witness ==
  /\ ~alive
  /\ memLog.postMortem
  /\ memLog.delta # 0
  /\ pendingExternalMemoryUpdate # 0

\* C9: unwrapping (or getInstance on) the handle that wrap made for a native
\* object, in the context it was wrapped in and for its own type, yields that
\* object: the pointer stored in the wrapper's internal field.
C9_WrapUnwrapRoundTrip ==
  lastUnwrap.op # "none" =>
    LET h == handle[lastUnwrap.o] IN
    /\ lastUnwrap.ctx = h.ctx => lastUnwrap.via = h.madeBy
    /\ (lastUnwrap.via = h.madeBy /\ lastUnwrap.expected = h.type)
         => (lastUnwrap.result = lastUnwrap.o /\
             lastUnwrap.result = h.fields[WRAPPED_OBJECT_FIELD_INDEX])

C9_Witness ==
  /\ lastUnwrap.op = "getInstance"
  /\ hasExtraWrappers
  /\ handle[lastUnwrap.o].madeBy = 2
  /\ lastUnwrap.ctx = handle[lastUnwrap.o].ctx
  /\ lastUnwrap.expected = handle[lastUnwrap.o].type
  /\ lastUnwrap.result = lastUnwrap.o

\* ------------------------------------------------------------------ promise tag properties
ChainDone == lastChain.p # 0
TagOf(c) == promises[c.p].context_tag
UnderOf(c) == promises[c.p].under
Range(f) == {f[i] : i \in DOMAIN f}
Jobbed == {microtasks[i].reaction : i \in DOMAIN microtasks}

\* C2: with a callback registered, a reaction chained onto a promise whose tag
\* is not the sentinel and differs from the ambient tag is never attached to
\* or scheduled against that promise without the callback having been called,
\* pending or settled.  Attempts made by the callback itself are left out.
C2_CrossContextNeverDirect ==
  (/\ ChainDone
   /\ lastChain.cbSet /\ ~lastChain.inCb
   /\ lastChain.ambient # TheHole
   /\ TagOf(lastChain) # SmiZero
   /\ TagOf(lastChain) # lastChain.ambient)
    => lastChain.args # <<>>

\* C3: a promise created under ambient tag T and chained under ambient tag T
\* is never handed to the cross-context callback; the reaction goes to the
\* promise itself.
C3_SameTagAttachesDirectly ==
  /\ outer.p # 0 => ~(UnderOf(outer) # TheHole /\ outer.ambient = UnderOf(outer))
  /\ (ChainDone /\ UnderOf(lastChain) # TheHole /\ lastChain.ambient = UnderOf(lastChain))
       => /\ lastChain.args = <<>>
          /\ lastChain.delegate = lastChain.p
          /\ lastChain.pending =>
               lastChain.reaction \in Range(promises[lastChain.p].reactions)
          /\ ~lastChain.pending => lastChain.reaction \in Jobbed

C3_Witness ==
  /\ ChainDone
  /\ lastChain.cbSet /\ ~lastChain.inCb /\ lastChain.pending
  /\ TagOf(lastChain) # SmiZero
  /\ lastChain.ambient = TagOf(lastChain)
  /\ lastChain.ambient = UnderOf(lastChain)
  /\ lastChain.delegate = lastChain.p
  /\ lastChain.reaction \in Range(promises[lastChain.p].reactions)

\* C4: a promise created under ambient tag T and chained under a different
\* ambient tag U with a callback registered has the callback called once for
\* the attempt, with the chaining context, the promise and T.  Attempts made
\* by the callback itself, and promises that carry no tag, are left out.
C4_CallbackOnceWithArguments ==
  (/\ ChainDone
   /\ lastChain.cbSet /\ ~lastChain.inCb
   /\ UnderOf(lastChain) # TheHole
   /\ TagOf(lastChain) = UnderOf(lastChain)
   /\ lastChain.ambient # TheHole
   /\ lastChain.ambient # UnderOf(lastChain))
    => lastChain.args = <<lastChain.context, lastChain.p, UnderOf(lastChain)>>

\* C8 as stated: while a scope is live no second scope is live with it and the
\* isolate's tag is the live scope's tag.
C8_NestedScopeRejected ==
  scopes # <<>> => (Len(scopes) = 1 /\ promise_context_tag_ = scopes[1])

\* C8: where DCHECKs are compiled in, entering a second scope while one is
\* live stops the process at the DCHECK with the outer tag untouched; only
\* such a build ever stops there.
C8_NestedScopeRejectedWithDChecks ==
  /\ debug /\ scopes # <<>> => (Len(scopes) = 1 /\ promise_context_tag_ = scopes[1])
  /\ aborted # "no" => debug /\ Len(scopes) = 1

C8_Witness ==
  /\ debug
  /\ aborted = "DCHECK(!isolate_->has_promise_context_tag())"
  /\ Len(scopes) = 1
  /\ promise_context_tag_ = scopes[1]

\* ------------------------------------------------------------------ strong references
\* The RefToDelete records that still own their wrappable: waiting in the
\* queue, or in the hands of a thread inside deferDestruction.
OwningRecords ==
  {pushBatch[i] : i \in DOMAIN pushBatch} \cup {popBatch[i] : i \in DOMAIN popBatch}
    \cup {hand[t].item : t \in {u \in Threads : pc[u] = "pushLocked"}}
StrongRecords(o) ==
  {r \in OwningRecords : r.kind = "ref" /\ r.strong /\ r.own = o}
WeakRecords(o) ==
  {r \in OwningRecords : r.kind = "ref" /\ ~r.strong /\ r.own = o}

\* The strong references to o that exist: live strong jsg::Refs and the strong
\* records not yet destroyed.
StrongOutstanding(o) == nativeRefs[o].strong + Cardinality(StrongRecords(o))

C12_ReactionOnReturnedPromise ==
  (/\ ChainDone
   /\ lastChain.args # <<>>
   /\ lastChain.delegate # 0
   /\ lastChain.delegate # lastChain.p)
    => /\ lastChain.reaction \in Range(promises[lastChain.delegate].reactions)
       /\ promises[lastChain.delegate].has_handler
       /\ lastChain.reaction \notin Range(promises[lastChain.p].reactions)
       /\ lastChain.reaction \notin Jobbed
       /\ lastChain.args[2] = lastChain.p

C12_Witness ==
  /\ ChainDone
  /\ lastChain.cbSet /\ lastChain.pending
  /\ lastChain.ambient # TheHole
  /\ TagOf(lastChain) # SmiZero
  /\ TagOf(lastChain) # lastChain.ambient
  /\ lastChain.delegate = lastChain.made
  /\ lastChain.made # 0
  /\ promises[lastChain.made].context_tag = lastChain.ambient
  /\ promises[lastChain.made].status = "pending"
  /\ promises[lastChain.made].reactions = <<lastChain.reaction>>
  /\ promises[lastChain.p].reactions = <<>>

\* ------------------------------------------------------------------ the lock, exclusion
\* The positions of a thread between Lock::Lock and ~Lock.
HeldPcs == {"applyDeferredActions", "popLocked", "batch", "memory", "locked", "guest"}
LockHolders == {t \in Threads : pc[t] \in HeldPcs}

Mismatch(u, h) == Tmpl(u.via, u.expected) # Tmpl(h.madeBy, h.type)

\* C14: an unwrap or getInstance of a handle that is not an instance of the
\* expected type gives no object: unwrap raises a TypeError to the guest and
\* getInstance returns none; the step changes nothing but its own outcome, so
\* the isolate stays alive, the process goes on and the wrappers, contexts and
\* handles are as before.
C14_UnwrapMismatchRecoverable ==
  [][lastUnwrap' # lastUnwrap =>
       /\ Mismatch(lastUnwrap', handle[lastUnwrap'.o]) =>
            /\ lastUnwrap'.result = 0
            /\ lastUnwrap'.op = "unwrap" => lastUnwrap'.thrown = "TypeError"
       /\ ~Mismatch(lastUnwrap', handle[lastUnwrap'.o]) => lastUnwrap'.thrown = "none"
       /\ UNCHANGED <<handle, wrappers, hasExtraWrappers, contexts, currentContext>>
       /\ UNCHANGED <<alive, aborted, lockHolder, pc>>]_vars

C14_Witness ==
  /\ lastUnwrap.op = "unwrap"
  /\ lastUnwrap.expected # handle[lastUnwrap.o].type
  /\ lastUnwrap.via = handle[lastUnwrap.o].madeBy
  /\ lastUnwrap.result = 0
  /\ lastUnwrap.thrown = "TypeError"
  /\ alive /\ aborted = "no"
  /\ handle[lastUnwrap.o].fields[WRAPPED_OBJECT_FIELD_INDEX] = lastUnwrap.o

\* ------------------------------------------------------------------ fail-open, sentinel, tag once
\* The reaction of a finished attempt sits with promise d: in its reaction
\* list if it was pending, queued as a job with the content of its
\* reactions_or_result slot if it was settled.
ReactionWith(c, d) ==
  IF c.pending THEN c.reaction \in Range(promises[d].reactions)
  ELSE \E i \in DOMAIN microtasks :
         /\ microtasks[i].reaction = c.reaction
         /\ microtasks[i].argument = promises[d].result

\* C15: with no callback registered, a reaction chained onto a promise whose
\* tag differs from the ambient tag goes to that promise, the callback
\* mechanism is not entered and nothing fails.
C15_NoCallbackFailOpen ==
  /\ outer.p # 0 => outer.cbSet
  /\ (ChainDone /\ ~lastChain.cbSet /\ TagOf(lastChain) # lastChain.ambient)
       => /\ lastChain.args = <<>>
          /\ lastChain.delegate = lastChain.p
          /\ ReactionWith(lastChain, lastChain.p)
          /\ promises[lastChain.p].has_handler
          /\ aborted = "no"

C15_Witness ==
  /\ ChainDone
  /\ ~lastChain.cbSet /\ lastChain.pending
  /\ TagOf(lastChain) # SmiZero
  /\ lastChain.ambient # TheHole
  /\ TagOf(lastChain) # lastChain.ambient
  /\ lastChain.delegate = lastChain.p
  /\ promises[lastChain.p].reactions = <<lastChain.reaction>>

\* C16: a promise whose tag is the sentinel is never handed to the callback,
\* whatever the ambient tag and whether or not a callback is set; a promise
\* made while no ambient tag is active has the sentinel.
C16_SentinelNeverIntercepted ==
  /\ \A p \in DOMAIN promises :
       promises[p].under = TheHole => promises[p].context_tag = SmiZero
  /\ outer.p # 0 => TagOf(outer) # SmiZero
  /\ (ChainDone /\ TagOf(lastChain) = SmiZero)
       => /\ lastChain.args = <<>>
          /\ lastChain.delegate = lastChain.p
          /\ ReactionWith(lastChain, lastChain.p)

C16_Witness ==
  /\ ChainDone
  /\ lastChain.cbSet /\ ~lastChain.inCb /\ lastChain.pending
  /\ UnderOf(lastChain) = TheHole
  /\ TagOf(lastChain) = SmiZero
  /\ lastChain.ambient # TheHole
  /\ lastChain.args = <<>>
  /\ promises[lastChain.p].reactions = <<lastChain.reaction>>

\* C17: a promise gets its tag when it is made, the ambient tag if one is
\* active and the sentinel otherwise, and no later step changes it.
C17_TagSetOnceAtCreation ==
  [][/\ \A p \in DOMAIN promises :
          promises'[p].context_tag = promises[p].context_tag
     /\ Len(promises') > Len(promises) =>
          promises'[Len(promises')].context_tag =
            (IF has_promise_context_tag THEN promise_context_tag_ ELSE SmiZero)]_vars

\* ------------------------------------------------------------------ teardown
\* C18: once the isolate is destroyed no thread is inside a Lock on it, the
\* destruction queue is empty and every item ever enqueued has been released
\* exactly once; no item is released twice at any time.
C18_DrainedBeforeTeardown ==
  /\ \A i \in ItemIds : released[i] <= 1
  /\ ~alive =>
       /\ lockHolder = 0 /\ LockHolders = {}
       /\ pushBatch = <<>> /\ popBatch = <<>>
       /\ \A i \in 1 .. nextItem : released[i] = 1

C18_Witness ==
  /\ ~alive
  /\ drainLog.state = "none"
  /\ nextItem = MaxItems
  /\ \A i \in 1 .. nextItem : released[i] = 1

\* ------------------------------------------------------------------ termination, V8System
UnchangedButLife ==
  UNCHANGED <<debug, varsWrap, varsPromise, varsMem, varsQueueData, varsFlags, varsCapacity, varsScope>>

\* IsolateBase::terminateExecution(): callable on any thread, with or without
\* the lock; it only posts the request to the engine.
terminateExecution(t) ==
  /\ alive
  /\ pc[t] \in {"idle", "locked"}
  /\ terminating' = TRUE
  /\ UNCHANGED <<guest, v8Systems, otherIsolates, alive, lockHolder, pc, hand>>
  /\ UnchangedButLife

\* The lock holder enters guest code.
runGuest(t) ==
  /\ HoldsLock(t)
  /\ SetPc(t, "guest")
  /\ guest' = [state |-> "running", steps |-> 0]
  /\ UNCHANGED <<terminating, v8Systems, otherIsolates, alive, lockHolder, hand>>
  /\ UnchangedButLife

\* An interruption point that does not look at the termination request.
InterruptCheck_ignore == FALSE

\* The engine's interrupt check at a safe point of the guest code: a pending
\* termination request is acted on.
InterruptCheck == terminating

\* The guest code reaches a safe interruption point: with a request pending it
\* is aborted by the uncatchable exception and control is back in the host;
\* otherwise it runs on.
guestInterruptionPoint(t) ==
  /\ pc[t] = "guest"
  /\ IF InterruptCheck
       THEN /\ guest' = [guest EXCEPT !.state = "terminated"]
            /\ terminating' = FALSE
            /\ SetPc(t, "locked")
       ELSE /\ guest.steps < MaxGuestSteps
            /\ guest' = [guest EXCEPT !.steps = @ + 1]
            /\ UNCHANGED <<terminating, pc>>
  /\ UNCHANGED <<v8Systems, otherIsolates, alive, lockHolder, hand>>
  /\ UnchangedButLife

\* The guest code returns to the host by itself.
guestReturn(t) ==
  /\ pc[t] = "guest"
  /\ guest' = [guest EXCEPT !.state = "returned"]
  /\ SetPc(t, "locked")
  /\ UNCHANGED <<terminating, v8Systems, otherIsolates, alive, lockHolder, hand>>
  /\ UnchangedButLife

LiveIsolates == otherIsolates + (IF alive THEN 1 ELSE 0)

\* V8System::V8System: one per process.
V8System_ctor ==
  /\ v8Systems = 0
  /\ v8Systems' = 1
  /\ UNCHANGED <<terminating, guest, otherIsolates, alive, lockHolder, pc, hand>>
  /\ UnchangedButLife

\* A V8System destroyed whatever isolates are left.
V8System_dtor_ready_any == TRUE

\* V8System::~V8System comes after the destruction of every isolate made
\* from it.
V8System_dtor_ready == LiveIsolates = 0

V8System_dtor ==
  /\ v8Systems = 1
  /\ V8System_dtor_ready
  /\ \A t \in Threads : pc[t] = "idle"
  /\ v8Systems' = 0
  /\ UNCHANGED <<terminating, guest, otherIsolates, alive, lockHolder, pc, hand>>
  /\ UnchangedButLife

\* IsolateBase::IsolateBase(V8System& system, ...): another isolate.
IsolateBase_ctor ==
  /\ v8Systems = 1
  /\ otherIsolates < MaxIsolates
  /\ otherIsolates' = otherIsolates + 1
  /\ UNCHANGED <<terminating, guest, v8Systems, alive, lockHolder, pc, hand>>
  /\ UnchangedButLife

\* ~IsolateBase of another isolate.
IsolateBase_dtor ==
  /\ otherIsolates > 0
  /\ otherIsolates' = otherIsolates - 1
  /\ UNCHANGED <<terminating, guest, v8Systems, alive, lockHolder, pc, hand>>
  /\ UnchangedButLife

NextLife ==
  \/ \E t \in Threads :
       \/ LockStep(t)
       \/ terminateExecution(t)
       \/ runGuest(t)
       \/ guestInterruptionPoint(t)
       \/ guestReturn(t)
       \/ Isolate_dtor(t)
  \/ V8System_ctor
  \/ V8System_dtor
  \/ IsolateBase_ctor
  \/ IsolateBase_dtor

SpecLife == Init /\ [][NextLife]_vars

\* The engine keeps running the guest code it has entered.
SpecLifeFair ==
  SpecLife /\ WF_vars(\E t \in Threads : guestInterruptionPoint(t))

GuestRunning == \E t \in Threads : pc[t] = "guest"

\* C19: a termination request raised while guest code runs leads to that
\* guest code being aborted at an interruption point, unless it has returned
\* by itself before reaching one.
\* The request itself can be made by any thread that is not inside the lock's
\* own steps, whoever holds the lock.
C19_TerminationAbortsGuest ==
  /\ [](alive => \A t \in Threads : pc[t] = "idle" => ENABLED terminateExecution(t))
  /\ (terminating /\ GuestRunning) ~> (guest.state = "terminated" \/ ~GuestRunning)

C19_Witness ==
  /\ guest.state = "terminated"
  /\ guest.steps > 0
  /\ ~terminating
  /\ lockHolder # 0 /\ pc[lockHolder] = "locked"

UnchangedButFlags ==
  UNCHANGED <<debug, varsWrap, varsPromise, varsLife, varsQueue, varsMem, varsCapacity, varsScope>>

\* The setters take a kj::Badge<Lock>: the caller is a member of Lock, run by
\* the thread that holds one.  Each stores its argument.
setAllowEval(t, allow) ==
  /\ HoldsLock(t)
  /\ evalAllowed' = allow
  /\ UNCHANGED <<jspiEnabled, captureThrowsAsRejections, nodeJsCompatEnabled, maybeLogger>>
  /\ UnchangedButFlags

setJspiEnabled(t, enabled) ==
  /\ HoldsLock(t)
  /\ jspiEnabled' = enabled
  /\ UNCHANGED <<evalAllowed, captureThrowsAsRejections, nodeJsCompatEnabled, maybeLogger>>
  /\ UnchangedButFlags

setCaptureThrowsAsRejections(t, capture) ==
  /\ HoldsLock(t)
  /\ captureThrowsAsRejections' = capture
  /\ UNCHANGED <<evalAllowed, jspiEnabled, nodeJsCompatEnabled, maybeLogger>>
  /\ UnchangedButFlags

setNodeJsCompatEnabled(t, enabled) ==
  /\ HoldsLock(t)
  /\ nodeJsCompatEnabled' = enabled
  /\ UNCHANGED <<evalAllowed, jspiEnabled, captureThrowsAsRejections, maybeLogger>>
  /\ UnchangedButFlags

setLoggerCallback(t) ==
  /\ HoldsLock(t)
  /\ maybeLogger' = 1
  /\ UNCHANGED <<evalAllowed, jspiEnabled, captureThrowsAsRejections, nodeJsCompatEnabled>>
  /\ UnchangedButFlags

NextFlags ==
  \E t \in Threads :
    \/ LockStep(t)
    \/ \E allow \in BOOLEAN : setAllowEval(t, allow)
    \/ \E enabled \in BOOLEAN : setJspiEnabled(t, enabled)
    \/ \E capture \in BOOLEAN : setCaptureThrowsAsRejections(t, capture)
    \/ \E enabled \in BOOLEAN : setNodeJsCompatEnabled(t, enabled)
    \/ setLoggerCallback(t)
    \/ runGuest(t)
    \/ guestReturn(t)

SpecFlags == Init /\ [][NextFlags]_vars

\* A Lock has been constructed on the isolate at some time.
LockedOnce == drainLog.state # "none"

\* C21: once a Lock has been taken on the isolate, or guest code has run, no
\* step changes a capability flag.
C21_FlagsFrozenAfterFirstLock ==
  [][(LockedOnce \/ guest.state # "none") => UNCHANGED varsFlags]_vars

\* ------------------------------------------------------------------ the queue under concurrency
\* Where an item is: how many of "in pushBatch", "in popBatch", "released" hold.
Places(i) ==
  (IF i \in Ids(pushBatch) THEN 1 ELSE 0) + (IF i \in Ids(popBatch) THEN 1 ELSE 0)
    + released[i]

\* Items whose enqueue completed after the current (or last) drain began.
EnqueuedSinceDrainBegan == EnqueueCompleted \ drainLog.snap

\* C22: an item whose enqueue completes while a drain is under way is, once
\* that drain is done, either released by it or waiting in the queue for the
\* next one; an enqueued item is always in exactly one of the queue and the
\* released items, and the drain that began after its enqueue has released it
\* when done.
C22_ConcurrentEnqueueNotSkipped ==
  /\ \A i \in EnqueueCompleted : Places(i) = 1
  /\ drainLog.state = "done" =>
       /\ \A i \in EnqueuedSinceDrainBegan :
            (released[i] = 1 /\ i \notin Queued) \/ (released[i] = 0 /\ i \in Ids(pushBatch))
       /\ \A i \in drainLog.snap : released[i] = 1 /\ i \notin Queued

C22_Witness ==
  /\ drainLog.state = "done"
  /\ alive
  /\ \E i \in EnqueuedSinceDrainBegan : released[i] = 1
  /\ \E i \in EnqueuedSinceDrainBegan : released[i] = 0 /\ i \in Ids(pushBatch)

\* The thread running a drain's release work, 0 if none.
Releasing == IF lockHolder # 0 /\ pc[lockHolder] = "batch" THEN lockHolder ELSE 0

\* C23: the drain takes the whole backlog out in the step that gives the queue
\* mutex back, and items are destroyed only afterwards: no item is released in
\* a step taken while the releasing thread holds the mutex, and during the
\* release work the mutex is free or in the hands of an enqueuing thread.
C23_ReleaseOutsideMutex ==
  /\ [](Releasing # 0 =>
          /\ queueMutex # Releasing
          /\ pushBatch = <<>> \/ EnqueuedSinceDrainBegan # {}
          /\ queueMutex # 0 => pc[queueMutex] = "pushLocked"
          /\ \A u \in Threads :
               (pc[u] = "idle" /\ queueMutex = 0 /\ nextItem < MaxItems)
                 => ENABLED dropGlobalUnlocked(u))
  /\ [][(\E t \in Threads : pc[t] = "popLocked" /\ pc'[t] = "batch")
          => (popBatch' = pushBatch /\ pushBatch' = <<>> /\ queueMutex' = 0
              /\ released' = released)]_vars
  /\ [][released' # released
          => (queueMutex = 0 \/ (queueMutex # lockHolder /\ pc[queueMutex] = "pushLocked"))]_vars

C23_Witness ==
  /\ Releasing # 0
  /\ popBatch # <<>>
  /\ \E u \in Threads : u # Releasing /\ pc[u] = "pushLocked" /\ queueMutex = u

\* Item ids are given out in the order in which the enqueuing threads get the
\* queue mutex: a sequence of ids is in enqueue order iff it is increasing.
InEnqueueOrder(ids) == \A i, j \in DOMAIN ids : i < j => ids[i] < ids[j]

\* C24: the items one drain releases are released in the order in which they
\* were enqueued, and the buffers hold their items in that order.
C24_DrainKeepsEnqueueOrder ==
  /\ InEnqueueOrder(drainLog.order)
  /\ InEnqueueOrder([k \in DOMAIN pushBatch |-> pushBatch[k].id])
  /\ InEnqueueOrder([k \in DOMAIN popBatch |-> popBatch[k].id])
  /\ \A k \in DOMAIN drainLog.order : released[drainLog.order[k]] = 1

C24_Witness ==
  /\ drainLog.state = "done"
  /\ Len(drainLog.order) = 2
  /\ drainLog.order[1] = 1

\* ------------------------------------------------------------------ queue capacity
\* The double buffer seen by sizes only, so that a backlog can pass the
\* ceiling: a burst stands for that many pushes in a row.
Bursts == {1, DESTRUCTION_QUEUE_INITIAL_SIZE + 1, DESTRUCTION_QUEUE_MAX_CAPACITY}

UnchangedButCapacity ==
  UNCHANGED <<debug, varsWrap, varsPromise, varsLife, varsFlags, varsQueue, varsMem, varsScope>>

\* The storage grows on demand: to what the elements need, never down.
Grow(capacity, size) == IF size > capacity THEN size ELSE capacity

\* BatchQueue::push, n times.
BatchQueue_push_n(n) ==
  /\ nBursts < MaxBursts
  /\ nBursts' = nBursts + 1
  /\ pushSize' = pushSize + n
  /\ pushCapacity' = Grow(pushCapacity, pushSize + n)
  /\ UNCHANGED <<popSize, popCapacity, batchLive, lastDrain>>
  /\ UnchangedButCapacity

\* BatchQueue::pop by sizes: the buffers trade places.
BatchQueue_pop_sizes ==
  /\ ~batchLive
  /\ batchLive' = TRUE
  /\ popSize' = pushSize
  /\ popCapacity' = pushCapacity
  /\ pushSize' = popSize
  /\ pushCapacity' = popCapacity
  /\ UNCHANGED <<nBursts, lastDrain>>
  /\ UnchangedButCapacity

\* A queue that keeps whatever storage it has grown.
ResetNeeded_never(backlog) == FALSE

\* The backlog went past the ceiling.
ResetNeeded(backlog) == backlog > DESTRUCTION_QUEUE_MAX_CAPACITY

\* ~Batch by sizes: the popped buffer is cleared; past the ceiling its storage
\* is replaced by one of the initial size.
Batch_dtor_sizes ==
  /\ batchLive
  /\ batchLive' = FALSE
  /\ popSize' = 0
  /\ popCapacity' = IF ResetNeeded(popSize) THEN DESTRUCTION_QUEUE_INITIAL_SIZE
                    ELSE popCapacity
  /\ lastDrain' = [n |-> IF lastDrain.n < 2 THEN lastDrain.n + 1 ELSE 2,
                   backlog |-> popSize, before |-> popCapacity, after |-> popCapacity']
  /\ UNCHANGED <<pushSize, pushCapacity, nBursts>>
  /\ UnchangedButCapacity

NextCapacity ==
  \/ \E n \in Bursts : BatchQueue_push_n(n)
  \/ BatchQueue_pop_sizes
  \/ Batch_dtor_sizes

SpecCapacity == Init /\ [][NextCapacity]_vars

Teardown == alive /\ ~alive'

NextAll ==
  \E t \in Threads :
    \/ LockStep(t)
    \/ dropGlobalUnlocked(t)
    \/ deferDestruction_push(t)
    \/ adjustViaTarget(t, 1)
    \/ deferAdjustment(t)

SpecAll == Init /\ [][NextAll]_vars

\* The positions in which a thread holds the queue mutex.
MutexPcs == {"popLocked", "pushLocked"}

\* The thread can take a step that does not wait for anything.
CanStep(t) ==
  \/ ENABLED deferDestruction_push(t)
  \/ ENABLED BatchQueue_pop(t)
  \/ ENABLED Batch_dtor(t)
  \/ ENABLED applyDeferredMemoryUpdate(t)
  \/ ENABLED deferAdjustment(t)
  \/ ENABLED Lock_dtor(t)

\* C27: the queue mutex is held only across a push or a pop, never by a thread
\* that is taking or waiting for the isolate lock; its holder can always go on
\* and give it back, and so can the holder of the isolate lock unless it waits
\* for the mutex: no thread waits for a thread that waits.
C27_MutexNeverAcrossLock ==
  /\ queueMutex # 0 =>
       /\ pc[queueMutex] \in MutexPcs
       /\ CanStep(queueMutex)
       /\ ~ENABLED Lock_ctor(queueMutex)
  /\ \A t \in Threads : pc[t] \in MutexPcs => queueMutex = t
  /\ \A t \in Threads : pc[t] = "defer" => CanStep(t)
  /\ lockHolder # 0 =>
       \/ CanStep(lockHolder)
       \/ /\ pc[lockHolder] = "applyDeferredActions"
          /\ IF queueMutex = 0 THEN ENABLED applyDeferredActions_lockExclusive(lockHolder)
             ELSE queueMutex # lockHolder /\ CanStep(queueMutex)

C27_Witness ==
  /\ lockHolder # 0
  /\ pc[lockHolder] = "applyDeferredActions"
  /\ queueMutex # 0
  /\ pc[queueMutex] = "pushLocked"
  /\ pendingExternalMemoryUpdate # 0

\* ------------------------------------------------------------------ re-entrancy
\* Chaining from inside the callback, under an embedder that keeps one scope
\* at a time.
NextNested ==
  \/ SetPromiseCrossContextCallback(1)
  \/ \E tag \in Tags : EnterPromiseContextScope_unnested(tag)
  \/ PromiseContextScope_dtor
  \/ NewJSPromise("init")
  \/ \E p \in DOMAIN promises : SettlePromise(p)
  \/ \E p \in DOMAIN promises, c \in NativeContexts : PerformPromiseThenImpl(p, c)
  \/ \E p \in DOMAIN promises, c \in NativeContexts : PerformPromiseThenImpl_nested(p, c)
  \/ \E result \in {0} \cup DOMAIN promises : PromiseCrossContextCallback_return(result)

SpecNested == Init /\ [][NextNested]_vars

\* C28: the in-progress flag is set exactly while one callback invocation is
\* under way; no step taken while it is set starts another invocation; and a
\* chaining attempt entered while it is set ends with the reaction on the
\* promise chained on, the callback not called for it.
C28_NoNestedInterception ==
  /\ [](in_promise_cross_context_callback_ <=> outer.p # 0)
  /\ [][in_promise_cross_context_callback_ =>
          (outer' = NoChain \/ (outer'.args = outer.args /\ outer'.reaction = outer.reaction))]_vars
  /\ []((ChainDone /\ lastChain.inCb)
          => /\ lastChain.args = <<>>
             /\ lastChain.delegate = lastChain.p
             /\ ReactionWith(lastChain, lastChain.p)
             /\ in_promise_cross_context_callback_)

C28_Witness ==
  /\ ChainDone
  /\ lastChain.inCb /\ lastChain.cbSet /\ lastChain.pending
  /\ TagOf(lastChain) # SmiZero
  /\ lastChain.ambient # TheHole
  /\ TagOf(lastChain) # lastChain.ambient
  /\ lastChain.delegate = lastChain.p
  /\ outer.p = lastChain.p
  /\ outer.reaction # lastChain.reaction

\* ------------------------------------------------------------------ creation paths
\* C29: a promise made while an ambient tag is active carries that tag,
\* whichever way it was made.
C29_EveryCreationPathTags ==
  \A p \in DOMAIN promises :
    promises[p].under # TheHole => promises[p].context_tag = promises[p].under

\* ------------------------------------------------------------------ RefToDelete
\* The records a step destroys while they own: the popped batch in a drain,
\* what is left in the queue in the isolate's destructor.
Destroyed ==
  IF Teardown THEN pushBatch
  ELSE IF Releasing # 0 /\ pc'[Releasing] = "memory" THEN popBatch
  ELSE <<>>

StrongOwning(item) == item.kind = "ref" /\ item.strong /\ item.own # 0

\* A thread finishes deferDestruction in this step.
Pushes == \E t \in Threads : pc[t] = "pushLocked" /\ pc'[t] = "idle"

\* C30: destroying a record removes one strong reference iff the record is
\* strong and still owns its wrappable, and does so right before the wrappable
\* is released; the moved-from record destroyed at the end of an enqueue
\* removes nothing and releases nothing, and the record in the queue still
\* owns.
C30_RefToDeleteDecrementsOnce ==
  /\ [](\A i \in ItemIds : removeCalls[i] <= 1 /\ removeCalls[i] <= released[i])
  /\ [](\A k \in DOMAIN drainLog.effects :
          drainLog.effects[k].what = "removeStrongRef"
            => /\ k + 1 \in DOMAIN drainLog.effects
               /\ drainLog.effects[k + 1] = [id |-> drainLog.effects[k].id, what |-> "release"])
  /\ [][Pushes =>
          /\ removeCalls' = removeCalls /\ released' = released
          /\ strongRefcount' = strongRefcount /\ ownCount' = ownCount
          /\ pushBatch'[Len(pushBatch')].own # 0]_vars
  /\ [][/\ \A k \in DOMAIN Destroyed :
             /\ removeCalls'[Destroyed[k].id] - removeCalls[Destroyed[k].id]
                  = (IF StrongOwning(Destroyed[k]) THEN 1 ELSE 0)
             /\ released'[Destroyed[k].id] = released[Destroyed[k].id] + 1
        /\ Destroyed # <<>> => \A o \in Objects :
             strongRefcount[o] - strongRefcount'[o] =
               Cardinality({k \in DOMAIN Destroyed :
                              StrongOwning(Destroyed[k]) /\ Destroyed[k].wrappable = o})]_vars

C30_Witness ==
  /\ drainLog.state = "done"
  /\ Len(drainLog.effects) = 3
  /\ Len(drainLog.order) = 2
  /\ \E k \in DOMAIN drainLog.effects : drainLog.effects[k].what = "removeStrongRef"
  /\ strongRefcount[1] = 0

\* ------------------------------------------------------------------ wrapper per context
\* C31: a context resolves to the type wrapper recorded when it was made, a
\* context with nothing recorded resolves to the default wrapper, every
\* recorded wrapper is one the isolate holds, and without extra wrappers the
\* isolate holds exactly one.
C31_ContextResolvesToItsWrapper ==
  /\ \A c \in DOMAIN contexts :
       /\ contexts[c] # 0 =>
            /\ getWrapperByContext(c) = contexts[c]
            /\ \E i \in DOMAIN wrappers : wrappers[i] = contexts[c]
       /\ contexts[c] = 0 => getWrapperByContext(c) = wrappers[1]
  /\ ~hasExtraWrappers => Len(wrappers) = 1
  /\ \A i, j \in DOMAIN wrappers : (i # j /\ wrappers[i] # 0) => wrappers[i] # wrappers[j]

C31_Witness ==
  /\ hasExtraWrappers
  /\ contexts = <<2, 1>>
  /\ getWrapperByContext(1) = 2
  /\ getWrapperByContext(2) = 1

\* ------------------------------------------------------------------ ambient tag scoping
\* Scopes entered and left around promise creation, with room for a promise
\* made after the scope of an earlier one has ended.
MaxLater == 1

NextScoped ==
  \/ \E tag \in Tags : EnterPromiseContextScope(tag)
  \/ PromiseContextScope_dtor
  \/ \E how \in {"init", "settled", "factory", "lowering"} :
       NewJSPromise_upTo(how, MaxPromises + MaxLater)

SpecScoped == InitP /\ [][NextScoped]_vars

\* C32: no tag is active unless a scope is live (so none after Isolate::Init);
\* entering a scope makes its tag the active one; a scope's exit leaves no tag
\* active; a promise made while no tag is active is untagged.
C32_AmbientTagStackDiscipline ==
  /\ [](scopes = <<>> => ~has_promise_context_tag)
  /\ [][/\ Len(scopes') > Len(scopes) =>
             /\ has_promise_context_tag'
             /\ promise_context_tag_' = scopes'[Len(scopes')]
        /\ Len(scopes') < Len(scopes) => ~has_promise_context_tag'
        /\ (Len(promises') > Len(promises) /\ ~has_promise_context_tag) =>
             promises'[Len(promises')].context_tag = SmiZero]_vars
  /\ [](\A p \in DOMAIN promises :
          promises[p].under = TheHole => promises[p].context_tag = SmiZero)

C32_Witness ==
  /\ Len(promises) = 2
  /\ promises[1].context_tag = 1
  /\ promises[1].under = 1
  /\ scopes = <<>>
  /\ promises[2].under = TheHole
  /\ promises[2].context_tag = SmiZero
  /\ promises[2].status = "pending"

\* ------------------------------------------------------------------ no scope ever entered
\* An embedder that never enters a PromiseContextScope.
NextLegacy ==
  \/ \E cb \in 0 .. 1 : SetPromiseCrossContextCallback(cb)
  \/ \E how \in {"init", "settled", "factory", "lowering"} :
       NewJSPromise_upTo(how, MaxPromises + MaxLater)
  \/ \E p \in DOMAIN promises : SettlePromise(p)
  \/ \E p \in DOMAIN promises, c \in NativeContexts : PerformPromiseThenImpl(p, c)
  \/ RunMicrotask

SpecLegacy == InitP /\ [][NextLegacy]_vars

\* C33: with no scope ever entered every promise is untagged, the callback is
\* never running, and each chaining attempt attaches its reaction to the
\* promise chained on (pending) or queues it with the promise's result
\* (settled) and marks that promise as handled, as without tagging.
C33_LegacyWithoutScopes ==
  /\ [](/\ ~has_promise_context_tag
        /\ ~in_promise_cross_context_callback_
        /\ outer = NoChain
        /\ \A p \in DOMAIN promises : promises[p].context_tag = SmiZero)
  /\ [][nReactions' # nReactions =>
          LET p == lastChain'.p
              r == lastChain'.reaction IN
          /\ lastChain'.delegate = p
          /\ promises'[p].has_handler
          /\ \A q \in DOMAIN promises : q # p => promises'[q] = promises[q]
          /\ IF promises[p].status = "pending"
               THEN /\ promises'[p].reactions = Append(promises[p].reactions, r)
                    /\ promises'[p].status = "pending"
                    /\ microtasks' = microtasks
               ELSE /\ microtasks' = Append(microtasks,
                                            [reaction |-> r, argument |-> promises[p].result])
                    /\ promises'[p] = [promises[p] EXCEPT !.has_handler = TRUE]]_vars

C33_Witness ==
  /\ lastChain # NoChain
  /\ lastChain.cbSet
  /\ lastChain.pending
  /\ lastChain.delegate = lastChain.p
  /\ promises[lastChain.p].reactions = <<lastChain.reaction>>
  /\ promises[lastChain.p].has_handler

\* ------------------------------------------------------------------ callback before reaction
\* The reactions attached to some promise or queued as a microtask.
AttachedReactions ==
  UNION {{promises[q].reactions[i] : i \in DOMAIN promises[q].reactions} : q \in DOMAIN promises}
    \cup {microtasks[i].reaction : i \in DOMAIN microtasks}

\* C34: while the callback of an intercepted attempt runs, that attempt's
\* reaction is on no promise and in no microtask and no microtask is run; the
\* step that calls the callback changes no promise and queues nothing, and the
\* reaction is attached by the step in which the callback returns a promise.
C34_CallbackBeforeReaction ==
  /\ [](in_promise_cross_context_callback_ =>
          /\ outer # NoChain
          /\ outer.reaction \notin AttachedReactions)
  /\ [][/\ (~in_promise_cross_context_callback_ /\ in_promise_cross_context_callback_') =>
             /\ promises' = promises
             /\ microtasks' = microtasks
        /\ in_promise_cross_context_callback_ =>
             /\ Len(microtasks') >= Len(microtasks)
             /\ SubSeq(microtasks', 1, Len(microtasks)) = microtasks
        /\ (in_promise_cross_context_callback_ /\ ~in_promise_cross_context_callback_'
              /\ lastChain'.delegate # 0) =>
             /\ outer.reaction \in AttachedReactions'
             /\ outer.reaction \in
                  {promises'[lastChain'.delegate].reactions[i] :
                     i \in DOMAIN promises'[lastChain'.delegate].reactions}]_vars

C34_Witness ==
  /\ in_promise_cross_context_callback_
  /\ outer.reaction = 1
  /\ outer.args = <<outer.context, outer.p, promises[outer.p].context_tag>>
  /\ promises[outer.p].reactions = <<>>
  /\ ~promises[outer.p].has_handler
  /\ microtasks = <<>>

\* ------------------------------------------------------------------ flag cleared on every return
\* One chaining attempt after another, each of which the callback may answer
\* with a promise or with an exception.
NextAgain ==
  \/ SetPromiseCrossContextCallback(1)
  \/ \E tag \in Tags : EnterPromiseContextScope_unnested(tag)
  \/ PromiseContextScope_dtor
  \/ NewJSPromise("init")
  \/ \E p \in DOMAIN promises, c \in NativeContexts :
       PerformPromiseThenImpl_upTo(p, c, MaxReactions + MaxNested)
  \/ \E result \in {0} \cup DOMAIN promises : PromiseCrossContextCallback_return(result)

SpecAgain == InitP /\ [][NextAgain]_vars

\* The attempt that the step just taken has entered, if it entered one.
Entered == IF in_promise_cross_context_callback_' THEN outer' ELSE lastChain'

\* C35: the in-progress flag is set exactly while a callback invocation is
\* under way; the callback's return clears it whether a promise or an
\* exception comes back; and a chaining attempt on a pending promise of
\* another tag, made with a callback set and the flag clear, is intercepted.
C35_FlagClearedOnEveryReturn ==
  /\ [](in_promise_cross_context_callback_ <=> outer # NoChain)
  /\ [][/\ (outer # NoChain /\ outer' = NoChain) => ~in_promise_cross_context_callback_'
        /\ (nReactions' # nReactions /\ ~in_promise_cross_context_callback_
              /\ Pending(Entered.p) /\ ~PromiseContextCheck_same(Entered.p)
              /\ promise_cross_context_callback_ # 0) =>
             /\ in_promise_cross_context_callback_'
             /\ outer'.args = <<outer'.context, outer'.p, promises[outer'.p].context_tag>>]_vars

\* A second attempt is intercepted after the first one's callback threw.
C35_Witness ==
  /\ in_promise_cross_context_callback_
  /\ outer.reaction = 2
  /\ ~outer.inCb
  /\ 1 \notin AttachedReactions

\* ------------------------------------------------------------------ callback throws
\* The callback of the attempt under way has just come back with an exception.
CallbackThrew ==
  /\ in_promise_cross_context_callback_
  /\ ~in_promise_cross_context_callback_'
  /\ lastChain' # NoChain
  /\ lastChain'.delegate = 0

\* C36: when the callback comes back with an exception the attempt ends with
\* no delegate, every promise is as it was before the attempt (reaction list
\* and has-handler flag of the promise chained on included), nothing is queued
\* and the attempt's reaction is on no promise and in no microtask.
C36_ThrowingCallbackAttachesNothing ==
  /\ [][/\ (~in_promise_cross_context_callback_ /\ in_promise_cross_context_callback_') =>
             /\ promises'[outer'.p] = promises[outer'.p]
             /\ outer'.reaction \notin AttachedReactions'
        /\ CallbackThrew =>
             /\ lastChain'.p = outer.p
             /\ promises' = promises
             /\ microtasks' = microtasks
             /\ outer.reaction \notin AttachedReactions']_vars
  /\ []((lastChain # NoChain /\ lastChain.delegate = 0) =>
          lastChain.reaction \notin AttachedReactions)

C36_Witness ==
  /\ ~in_promise_cross_context_callback_
  /\ lastChain # NoChain
  /\ lastChain.delegate = 0
  /\ lastChain.args # <<>>
  /\ promises[lastChain.p].reactions = <<>>
  /\ ~promises[lastChain.p].has_handler
  /\ promises[lastChain.p].status = "pending"

\* ------------------------------------------------------------------ settled delegate
\* The callback of the attempt under way has just handed back promise d, which
\* was settled already.
ReturnedSettled(d) ==
  /\ in_promise_cross_context_callback_
  /\ ~in_promise_cross_context_callback_'
  /\ lastChain' # NoChain
  /\ lastChain'.delegate = d
  /\ promises[d].status = "settled"

\* The reactions that are queued or are on a promise that can still settle.
RunnableReactions ==
  UNION {{promises[q].reactions[i] : i \in DOMAIN promises[q].reactions} :
           q \in {x \in DOMAIN promises : Pending(x)}}
    \cup {microtasks[i].reaction : i \in DOMAIN microtasks}

\* C37: when the callback hands back a promise that is settled already, the
\* promise keeps its stored result and the attempt's reaction is queued with
\* that result.
C37_SettledDelegateKeepsResult ==
  [][\A d \in DOMAIN promises :
       ReturnedSettled(d) =>
         /\ promises'[d].result = promises[d].result
         /\ promises'[d].status = "settled"
         /\ outer.reaction \in RunnableReactions'
         /\ \E i \in DOMAIN microtasks' :
              microtasks'[i] = [reaction |-> outer.reaction,
                                argument |-> promises[d].result]]_vars

\* ------------------------------------------------------------------ tagged promise, no ambient tag
\* C38: with a callback registered and none running, a chaining attempt on a
\* promise whose tag is not the sentinel, made while no ambient tag is active,
\* has the callback called for it.
C38_NoAmbientTagIsCrossContext ==
  (/\ ChainDone
   /\ lastChain.cbSet /\ ~lastChain.inCb
   /\ lastChain.ambient = TheHole
   /\ TagOf(lastChain) # SmiZero)
    => lastChain.args = <<lastChain.context, lastChain.p, TagOf(lastChain)>>

\* ------------------------------------------------------------------ runInLockScope
UnchangedButScope ==
  UNCHANGED <<debug, varsWrap, varsPromise, varsLife, varsFlags, varsCapacity, varsQueue, varsMem>>

SetLockScope(t, s) == lockScope' = [lockScope EXCEPT ![t] = s]

\* A Lock that is destroyed only when the lambda returns normally.
LockDestroyedOnExit_returnOnly(s) == s = "returned"

\* `Lock lock(*this, stackScope)` is a local of the lambda passed to
\* runInV8Stack: it is destroyed when the lambda is left, by the return of
\* func's value or by an exception from func.
LockDestroyedOnExit(s) == TRUE

\* Isolate::runInLockScope is called: runInV8Stack calls the lambda.
runInLockScope_call(t) ==
  /\ alive
  /\ pc[t] = "idle"
  /\ lockScope[t] = "none"
  /\ SetLockScope(t, "entered")
  /\ UnchangedButScope

\* Lock lock(*this, stackScope);
runInLockScope_Lock_ctor(t) ==
  /\ lockScope[t] = "entered"
  /\ Lock_ctor(t)

\* return lock.withinHandleScope([&] { return func(lock); }): func is called.
runInLockScope_func(t) ==
  /\ lockScope[t] = "entered"
  /\ pc[t] = "locked"
  /\ SetLockScope(t, "func")
  /\ UnchangedButScope

\* func returns its value or throws.
runInLockScope_func_done(t, threw) ==
  /\ lockScope[t] = "func"
  /\ SetLockScope(t, IF threw THEN "threw" ELSE "returned")
  /\ UnchangedButScope

\* The lambda is left: ~Lock.
runInLockScope_Lock_dtor(t) ==
  /\ lockScope[t] \in {"returned", "threw"}
  /\ LockDestroyedOnExit(lockScope[t])
  /\ Lock_dtor(t)

\* runInLockScope returns to its caller, or the exception leaves it.
runInLockScope_return(t) ==
  /\ lockScope[t] \in {"returned", "threw"}
  /\ LockDestroyedOnExit(lockScope[t]) => pc[t] = "idle"
  /\ SetLockScope(t, "none")
  /\ UnchangedButScope

NextLockScope ==
  \E t \in Threads :
    \/ runInLockScope_call(t)
    \/ runInLockScope_Lock_ctor(t)
    \/ applyDeferredActions_lockExclusive(t)
    \/ BatchQueue_pop(t)
    \/ Batch_dtor(t)
    \/ applyDeferredMemoryUpdate(t)
    \/ runInLockScope_func(t)
    \/ \E threw \in BOOLEAN : runInLockScope_func_done(t, threw)
    \/ runInLockScope_Lock_dtor(t)
    \/ runInLockScope_return(t)
    \/ lockScope[t] = "none" /\ dropGlobalUnlocked(t)
    \/ deferDestruction_push(t)

SpecLockScope == Init /\ [][NextLockScope]_vars

\* C39: a thread is inside the function given to runInLockScope only while it
\* holds the isolate lock, with the constructor's deferred actions done; a
\* thread that is in no runInLockScope call holds no lock; the function is
\* entered with the lock held, and the call is left, by return or by
\* exception, with the lock given back.
C39_LockHeldForTheCall ==
  /\ [](\A t \in Threads :
          /\ lockScope[t] = "func" => HoldsLock(t)
          /\ lockScope[t] = "none" => (lockHolder # t /\ pc[t] \notin HeldPcs)
          /\ (lockScope[t] \in {"returned", "threw"} /\ pc[t] = "locked") =>
               ENABLED runInLockScope_Lock_dtor(t))
  /\ [][\A t \in Threads :
          /\ (lockScope[t] # "func" /\ lockScope'[t] = "func") =>
               (HoldsLock(t) /\ lockHolder' = t)
          /\ (lockScope[t] = "func" /\ lockScope'[t] # "func") => lockHolder' = t
          /\ (lockScope[t] # "none" /\ lockScope'[t] = "none") =>
               (lockHolder' # t /\ pc'[t] = "idle")]_vars

\* One call's function threw and its lock is gone while the exception is
\* still on its way out; another thread's function runs under the lock.
C39_Witness ==
  /\ lockScope[1] = "threw"
  /\ pc[1] = "idle"
  /\ lockHolder = 2
  /\ lockScope[2] = "func"

\* ------------------------------------------------------------------ default wrapper
\* Calls of instantiateDefaultWrapper modelled per isolate.
MaxInstantiations == 2

\* A KJ_DASSERT that is compiled out of every build.
KJ_DASSERT_off(cond) == TRUE

\* KJ_DASSERT(cond) is passed: the condition is evaluated in debug builds only.
KJ_DASSERT(cond) == debug => cond

\* Isolate::instantiateDefaultWrapper called whatever the state of wrappers[0].
\* The slot's value counts the wrappers that have been put there: each call
\* that gets past the assertion stores a new TypeWrapper, and the kj::Own
\* assignment destroys the one it replaces.
callInstantiateDefaultWrapper(t) ==
  /\ alive
  /\ pc[t] = "idle"
  /\ aborted = "no"
  /\ wrappers[1] < MaxInstantiations
  /\ IF KJ_DASSERT(wrappers[1] = 0)
       THEN /\ wrappers' = [wrappers EXCEPT ![1] = @ + 1]
            /\ UNCHANGED aborted
       ELSE /\ aborted' = "KJ_DASSERT(wrappers[0].get() == nullptr)"
            /\ UNCHANGED wrappers
  /\ UNCHANGED <<hasExtraWrappers, contexts, currentContext, handle, lastUnwrap>>
  /\ UNCHANGED <<promise_context_tag_, promise_cross_context_callback_,
                 in_promise_cross_context_callback_, scopes, promises,
                 microtasks, nReactions, outer, lastChain>>
  /\ UNCHANGED <<debug, varsQueue, varsMem, varsLife, varsFlags, varsCapacity, varsScope>>

\* Lock::newContext called whatever the state of wrappers[0].  With the slot
\* empty and the assertion compiled out, newContextWithWrapper calls
\* wrapper->newContext through a null pointer: the process faults, or the
\* call runs on and the context's slot 3 holds the null pointer.
callNewContext(t) ==
  /\ HoldsLock(t)
  /\ aborted = "no"
  /\ Len(contexts) < MaxContexts
  /\ IF wrappers[1] # 0
       THEN /\ contexts' = Append(contexts, wrappers[1])
            /\ UNCHANGED aborted
       ELSE IF ~KJ_DASSERT(wrappers[1] # 0)
              THEN /\ aborted' = "KJ_DASSERT(jsgIsolate.wrappers[0].get() != nullptr)"
                   /\ UNCHANGED contexts
              ELSE \/ /\ aborted' = "null TypeWrapper dereferenced"
                      /\ UNCHANGED contexts
                   \/ /\ contexts' = Append(contexts, 0)
                      /\ UNCHANGED aborted
  /\ UNCHANGED <<wrappers, hasExtraWrappers, currentContext, handle, lastUnwrap>>
  /\ UNCHANGED <<promise_context_tag_, promise_cross_context_callback_,
                 in_promise_cross_context_callback_, scopes, promises,
                 microtasks, nReactions, outer, lastChain>>
  /\ UNCHANGED <<debug, varsQueue, varsMem, varsLife, varsFlags, varsCapacity, varsScope>>

NextDefault ==
  \E t \in Threads :
    \/ aborted = "no" /\ LockStep(t)
    \/ callInstantiateDefaultWrapper(t)
    \/ callNewContext(t)

InitD ==
  /\ debug \in BOOLEAN
  /\ InitIsolate
  /\ \E b \in BOOLEAN : InitWrap(b)
  /\ InitPromise

SpecDefault == InitD /\ [][NextDefault]_vars

DefaultWrapperAsserts ==
  {"KJ_DASSERT(wrappers[0].get() == nullptr)",
   "KJ_DASSERT(jsgIsolate.wrappers[0].get() != nullptr)"}

\* C40 as stated: the default slot is filled at most once and never refilled,
\* every context made by newContext carries the one default wrapper, and the
\* only way such a call fails is by one of the two assertions.
C40_DefaultWrapperOnce ==
  /\ [](/\ wrappers[1] <= 1
        /\ \A c \in DOMAIN contexts : contexts[c] = 1
        /\ aborted # "no" => aborted \in DefaultWrapperAsserts)
  /\ [][/\ wrappers[1] # 0 => wrappers'[1] = wrappers[1]
        /\ Len(contexts') > Len(contexts) => wrappers[1] # 0]_vars

\* C40: in a build with debug assertions the default slot is filled at most
\* once and never refilled, a second instantiateDefaultWrapper or a newContext
\* on an empty slot stops at its assertion, every context made by newContext
\* carries the one default wrapper, and the assertions exist in such a build
\* only.
C40_DefaultWrapperOnceWithDebugAsserts ==
  /\ [](/\ debug =>
             /\ wrappers[1] <= 1
             /\ \A c \in DOMAIN contexts : contexts[c] = 1
             /\ aborted # "no" => aborted \in DefaultWrapperAsserts
        /\ aborted \in DefaultWrapperAsserts => debug)
  /\ [][debug =>
          /\ wrappers[1] # 0 => wrappers'[1] = wrappers[1]
          /\ Len(contexts') > Len(contexts) => wrappers[1] # 0]_vars

C40_Witness ==
  /\ debug
  /\ aborted = "KJ_DASSERT(wrappers[0].get() == nullptr)"
  /\ wrappers[1] = 1
  /\ contexts # <<>>

====
